---------------------------- MODULE Spec2Model ----------------------------
(***************************************************************************)
(* A model of the stockSense dashboard's data layer:                       *)
(*   - the useWatchlist hook and its local-storage mirror                  *)
(*     (hooks/useStockData, unnamed/part_003 lines 1464-1496);             *)
(*   - the AI narrative helper getAIRecommendation (utils/aiUtils.ts);     *)
(*   - the fetch functions of utils/apiUtils.ts in their two revisions     *)
(*     (brokerage only; brokerage, public API and rate limiter), the       *)
(*     brokerage connector breezeUtils as far as they depend on it, and    *)
(*     the useStockData hook that chains three of them.                    *)
(* React is modelled at the level the hook's code depends on: a state      *)
(* cell, the value captured by the closures of the last render, the        *)
(* re-render scheduled by a setState with a new array, and the passive     *)
(* effect that runs after a render whose dependency changed.               *)
(***************************************************************************)
EXTENDS Integers, Sequences, FiniteSets, TLC

VARIABLES
    \* ---- useWatchlist ----
    stored,        \* localStorage key "watchlist": [has, text]
    mounted,       \* a component using useWatchlist is mounted
    rendered,      \* `watchlist` as captured by the closures of the last render
    wlState,       \* React's state cell: the value the next render will show
    dirty,         \* a setWatchlist happened since the last render
    effectPending, \* the useEffect of the last render has not run yet
    wlToasts,      \* kind of the last toast the hook emitted ("none" if none)
    last,          \* history variable: the most recent add/remove call
    prev,          \* history variable: the call before `last`
    \* ---- getAIRecommendation (aiUtils) ----
    ai,            \* the call in progress: [pc, sd, api, result, rejected, toast]
    \* ---- apiUtils / breezeUtils / useStockData ----
    apiRev,        \* revision of apiUtils.ts in the build: "breeze" or "alpha"
    brzRev,        \* revision of breezeUtils in the build: 1, 2 or 3
    breezeClient,  \* module variable breezeClient: "null" or "client"
    apiCallCount,  \* module variable apiCallCount of the "alpha" revision
    resetTimers,   \* pending setTimeout callbacks of resetApiCallCount
    httpSinceReset,\* history variable: HTTP requests sent to the public API
                   \* since apiCallCount was last reset
    call,          \* the fetch call in progress (or the last one finished)
    kids,          \* the fetchStockQuote calls spawned by fetchTrendingStocks
    hook,          \* useStockData: [pc, sym, stockData, isLoading, error, ...]
    \* ---- pure helpers of apiUtils ----
    fmt,           \* the last formatCurrency call: [pc, symbol, out]
    chart,         \* generateMockChartData: the walk in progress and its data
    \* ---- useStockData with overlapping fetches ----
    runs,          \* the fetchData invocations of the hook's effect
    view,          \* the hook's state cells: [symbol, stockData, isLoading, error]
    \* ---- stockUtils and the components ----
    score,         \* the last call of stockUtils' getAIRecommendation
    bar,           \* SearchBar: query, debounce timer, lookups, suggestions
    dash,          \* Dashboard: watchlist, fetch batches, watchlistData
    page,          \* StockAnalysis: stockData, requests, aiRecommendation
    boot,          \* breezeUtils initialisation and the requests sent
    disp           \* the amount a component is formatting

fetchVars == <<apiRev, brzRev, breezeClient, apiCallCount, resetTimers,
               httpSinceReset, call, kids, hook>>

uiVars == <<score, bar, dash, page, boot, disp>>

extraVars == <<fmt, chart, runs, view, uiVars>>

coreVars == <<stored, mounted, rendered, wlState, dirty, effectPending,
              wlToasts, last, prev, ai, fetchVars, fmt, chart, runs, view>>

vars == <<stored, mounted, rendered, wlState, dirty, effectPending,
          wlToasts, last, prev, ai, fetchVars, extraVars>>

wlVars == <<stored, mounted, rendered, wlState, dirty, effectPending,
            wlToasts, last, prev>>

-----------------------------------------------------------------------------
(* Generic helpers                                                         *)

Range(s) == {s[i] : i \in DOMAIN s}

NoDup(s) == \A i, j \in DOMAIN s : i # j => s[i] # s[j]

Count(x, s) == Cardinality({i \in DOMAIN s : s[i] = x})

\* Array.prototype.includes
Includes(w, s) == \E i \in DOMAIN w : w[i] = s

-----------------------------------------------------------------------------
(* useWatchlist                                                            *)

\* Symbols the UI can put on the watchlist (an NSE listing, a second NSE
\* listing and a US listing).
WatchSymbols == {"NSE:TCS", "NSE:INFY", "AAPL"}

\* Duplicate-free lists over WatchSymbols: what a previous page load can have
\* left in local storage.
RECURSIVE ListsUpTo(_)
ListsUpTo(n) ==
    IF n = 0 THEN {<<>>}
    ELSE LET shorter == ListsUpTo(n - 1)
         IN  shorter \cup {Append(l, s) : l \in shorter, s \in WatchSymbols}

DupFreeLists == {l \in ListsUpTo(Cardinality(WatchSymbols)) : NoDup(l)}

\* One lexical token of a JSON text.
Tok(t, v) == [t |-> t, v |-> v]

\* JSON.stringify of an array of strings: "[", the quoted strings separated
\* by ",", "]".
RECURSIVE JSONitems(_)
JSONitems(w) ==
    IF Len(w) = 0 THEN <<>>
    ELSE IF Len(w) = 1 THEN <<Tok("str", w[1])>>
    ELSE <<Tok("str", w[1]), Tok(",", "")>> \o JSONitems(Tail(w))

JSONstringify(w) == <<Tok("[", "")>> \o JSONitems(w) \o <<Tok("]", "")>>

\* JSON.parse of an array text: the string tokens in order (they sit at the
\* even positions, between the brackets and the commas).
JSONparse(text) ==
    [i \in 1..((Len(text) - 1) \div 2) |-> text[2 * i].v]

NoItem == [has |-> FALSE, text |-> <<>>]

\* localStorage.setItem("watchlist", text)
SetItem(text) == [has |-> TRUE, text |-> text]

\* useState initialiser: saved ? JSON.parse(saved) : []
InitialWatchlistIgnoresSaved(st) == <<>>

InitialWatchlist(st) == IF st.has THEN JSONparse(st.text) ELSE <<>>

\* watchlist.filter(s => s !== symbol)
FilterOutSplice(w, s) ==
    \* what `watchlist.splice(watchlist.indexOf(symbol), 1)` would leave:
    \* indexOf is -1 for a non-member and splice(-1, 1) drops the last entry
    IF Includes(w, s) THEN SelectSeq(w, LAMBDA x : x # s)
    ELSE IF Len(w) = 0 THEN w ELSE SubSeq(w, 1, Len(w) - 1)

FilterOutKeeps(w, s) == SelectSeq(w, LAMBDA x : x = s)

FilterOut(w, s) == SelectSeq(w, LAMBDA x : x # s)

\* the guard of addToWatchlist: !watchlist.includes(symbol)
ShouldAddAlways(w, s) == TRUE

ShouldAdd(w, s) == ~Includes(w, s)

NoCall == [op |-> "none", sym |-> "", pre |-> <<>>, fresh |-> FALSE,
           synced |-> FALSE, preStored |-> NoItem]

\* The record of a call made now: the state cell before it, whether the
\* closure it runs in is current (no un-rendered update is pending) and
\* whether local storage is in step with the rendered list.
CallRecord(op, s) ==
    [op |-> op, sym |-> s, pre |-> wlState,
     fresh |-> (~dirty /\ wlState = rendered),
     synced |-> ~effectPending,
     preStored |-> stored]

\* What is remembered of the call before the last one: the operation, its
\* symbol, whether its closure was current and whether the symbol was a
\* member when it was made.
Brief(c) == [op |-> c.op, sym |-> c.sym, fresh |-> c.fresh,
             member |-> Includes(c.pre, c.sym)]

WatchInit ==
    /\ stored \in {NoItem} \cup {SetItem(JSONstringify(l)) : l \in DupFreeLists}
    /\ mounted = FALSE
    /\ rendered = <<>>
    /\ wlState = <<>>
    /\ dirty = FALSE
    /\ effectPending = FALSE
    /\ wlToasts = "none"
    /\ last = NoCall
    /\ prev = Brief(NoCall)

\* A component calling useWatchlist mounts: the state is initialised from
\* local storage and the effect of the first render is scheduled.
Mount ==
    /\ ~mounted
    /\ mounted' = TRUE
    /\ wlState' = InitialWatchlist(stored)
    /\ rendered' = InitialWatchlist(stored)
    /\ dirty' = FALSE
    /\ effectPending' = TRUE
    /\ wlToasts' = "none"
    /\ last' = NoCall
    /\ prev' = Brief(NoCall)
    /\ UNCHANGED <<stored, ai, fetchVars, extraVars>>

\* addToWatchlist(symbol), run in the closure of the last render.
AddToWatchlist(s) ==
    /\ mounted
    /\ IF ShouldAdd(rendered, s)
       THEN /\ wlState' = Append(rendered, s)
            /\ dirty' = TRUE
            /\ wlToasts' = "added"
       ELSE UNCHANGED <<wlState, dirty, wlToasts>>
    /\ last' = CallRecord("add", s)
    /\ prev' = Brief(last)
    /\ UNCHANGED <<stored, mounted, rendered, effectPending, ai, fetchVars, extraVars>>

\* removeFromWatchlist(symbol): always sets a new array and always toasts.
RemoveFromWatchlist(s) ==
    /\ mounted
    /\ wlState' = FilterOut(rendered, s)
    /\ dirty' = TRUE
    /\ wlToasts' = "removed"
    /\ last' = CallRecord("remove", s)
    /\ prev' = Brief(last)
    /\ UNCHANGED <<stored, mounted, rendered, effectPending, ai, fetchVars, extraVars>>

\* React re-renders the component: the closures now see the state cell.  The
\* array is a new object, so the effect's dependency changed.  Passive
\* effects of the previous render are flushed before a new render starts.
Render ==
    /\ mounted
    /\ dirty
    /\ ~effectPending
    /\ rendered' = wlState
    /\ dirty' = FALSE
    /\ effectPending' = TRUE
    /\ UNCHANGED <<stored, mounted, wlState, wlToasts, last, prev, ai, fetchVars, extraVars>>

\* useEffect(() => localStorage.setItem("watchlist", JSON.stringify(watchlist)))
RunEffect ==
    /\ mounted
    /\ effectPending
    /\ stored' = SetItem(JSONstringify(rendered))
    /\ effectPending' = FALSE
    /\ UNCHANGED <<mounted, rendered, wlState, dirty, wlToasts, last, prev, ai, fetchVars, extraVars>>

\* The page is left (route change): the hook's state is dropped.  Pending
\* passive effects are flushed before the commit that unmounts.
Unmount ==
    /\ mounted
    /\ ~effectPending
    /\ mounted' = FALSE
    /\ rendered' = <<>>
    /\ wlState' = <<>>
    /\ dirty' = FALSE
    /\ wlToasts' = "none"
    /\ last' = NoCall
    /\ prev' = Brief(NoCall)
    /\ UNCHANGED <<stored, effectPending, ai, fetchVars, extraVars>>

WatchNext ==
    \/ Mount
    \/ \E s \in WatchSymbols : AddToWatchlist(s)
    \/ \E s \in WatchSymbols : RemoveFromWatchlist(s)
    \/ Render
    \/ RunEffect
    \/ Unmount

-----------------------------------------------------------------------------
(* getAIRecommendation (utils/aiUtils.ts)                                  *)

\* A JSON value as far as the AIRecommendation type distinguishes values: a
\* string, a number (in tenths, so 0.6 is 6) or an array of n strings.
Val(ty, n, s) == [ty |-> ty, n |-> n, s |-> s]

Str(s) == Val("str", 0, s)

Num(n) == Val("num", n, "")

Arr(n) == Val("arr", n, "")

NoVal == Val("none", 0, "")

\* The fields of interface AIRecommendation.
AIFields == {"summary", "recommendation", "confidenceScore", "reasons",
             "riskLevel", "shortTermOutlook", "longTermOutlook"}

\* The fields of StockData the helper's control flow reads, in whole
\* percents and whole P/E units, on both sides of every threshold the
\* fallback compares against (0, 2, -2, 5, -5; 15, 20, 25).
ChangePercents == {-6, -5, -3, -2, 0, 2, 3, 5, 6}

PeRatios == {10, 18, 22, 30}

StockInputs == [changePercent : ChangePercents, peRatio : PeRatios,
                currency : {"INR", "USD"}]

NoStock == [changePercent |-> 0, peRatio |-> 0, currency |-> "none"]

\* confidenceScore: 0.6 of the fallback record, in tenths.
FallbackConfidenceTenths == 6

Abs(n) == IF n < 0 THEN 0 - n ELSE n

\* The three template strings of the fallback's reasons, as the parts the
\* templates choose and interpolate: the currency sign before the price;
\* the direction and the magnitude of the change; the class and the value
\* of the P/E ratio.
FallbackReasons(sd) ==
    << [about |-> "price",
        sign |-> IF sd.currency = "INR" THEN "rupee" ELSE "dollar"],
       [about |-> "change",
        direction |-> IF sd.changePercent > 0 THEN "Up" ELSE "Down",
        percent |-> Abs(sd.changePercent)],
       [about |-> "pe",
        class |-> IF sd.peRatio > 25 THEN "high"
                  ELSE IF sd.peRatio < 15 THEN "low" ELSE "moderate",
        ratio |-> sd.peRatio] >>

\* The reasons of the record StockAnalysis builds in its own catch branch.
StockAnalysisReasons(sd) ==
    << [about |-> "price",
        sign |-> IF sd.currency = "INR" THEN "rupee" ELSE "dollar"],
       [about |-> "change",
        direction |-> IF sd.changePercent > 0 THEN "Up" ELSE "Down",
        percent |-> Abs(sd.changePercent)],
       [about |-> "pe",
        class |-> IF sd.peRatio > 25 THEN "high"
                  ELSE IF sd.peRatio < 15 THEN "low" ELSE "moderate",
        ratio |-> sd.peRatio] >>

\* The record StockAnalysis passes to setAiRecommendation in the catch
\* branch of fetchAIRecommendation.
StockAnalysisFallback(sd) ==
    [summary |-> Str(IF sd.changePercent > 0 THEN "positive movement"
                     ELSE "negative movement"),
     recommendation |-> Str(IF sd.changePercent > 2 THEN "Buy"
                            ELSE IF sd.changePercent < -2 THEN "Sell"
                            ELSE "Hold"),
     confidenceScore |-> Num(6),
     reasons |-> Arr(Len(StockAnalysisReasons(sd))),
     riskLevel |-> Str(IF sd.changePercent > 5 \/ sd.changePercent < -5
                       THEN "High" ELSE "Medium"),
     shortTermOutlook |-> Str(IF sd.changePercent > 0 THEN "continued growth"
                              ELSE "potential recovery"),
     longTermOutlook |-> Str(IF sd.peRatio < 20 THEN "favorable"
                             ELSE "challenging")]

\* A fallback whose thresholds include their bounds and whose third risk
\* level is in use.
FallbackInclusiveThresholds(sd) ==
    [summary |-> Str(IF sd.changePercent > 0 THEN "positive movement"
                     ELSE "negative movement"),
     recommendation |-> Str(IF sd.changePercent >= 2 THEN "Buy"
                            ELSE IF sd.changePercent <= -2 THEN "Sell"
                            ELSE "Hold"),
     confidenceScore |-> Num(FallbackConfidenceTenths),
     reasons |-> Arr(3),
     riskLevel |-> Str(IF sd.changePercent >= 5 \/ sd.changePercent <= -5
                       THEN "High"
                       ELSE IF sd.changePercent = 0 THEN "Low" ELSE "Medium"),
     shortTermOutlook |-> Str(IF sd.changePercent > 0 THEN "continued growth"
                              ELSE "potential recovery"),
     longTermOutlook |-> Str(IF sd.peRatio < 20 THEN "favorable"
                             ELSE "challenging")]

\* A fallback that forgets the two outlook fields.
FallbackWithoutOutlooks(sd) ==
    [summary |-> Str("movement"),
     recommendation |-> Str("Hold"),
     confidenceScore |-> Num(FallbackConfidenceTenths),
     reasons |-> Arr(3),
     riskLevel |-> Str("Medium")]

\* The record built in the catch block.
Fallback(sd) ==
    [summary |-> Str(IF sd.changePercent > 0 THEN "positive movement"
                     ELSE "negative movement"),
     recommendation |-> Str(IF sd.changePercent > 2 THEN "Buy"
                            ELSE IF sd.changePercent < -2 THEN "Sell"
                            ELSE "Hold"),
     confidenceScore |-> Num(FallbackConfidenceTenths),
     reasons |-> Arr(Len(FallbackReasons(sd))),
     riskLevel |-> Str(IF sd.changePercent > 5 \/ sd.changePercent < -5
                       THEN "High" ELSE "Medium"),
     shortTermOutlook |-> Str(IF sd.changePercent > 0 THEN "continued growth"
                              ELSE "potential recovery"),
     longTermOutlook |-> Str(IF sd.peRatio < 20 THEN "favorable"
                             ELSE "challenging")]

\* The model's reply is a sequence of tokens: prose, an opening brace, a
\* closing brace, or one "key": value member of a JSON object (the commas
\* between members are part of the member tokens).
ATok(t, k, v) == [t |-> t, k |-> k, v |-> v]

Prose == ATok("prose", "", NoVal)

LBrace == ATok("{", "", NoVal)

RBrace == ATok("}", "", NoVal)

Member(k, v) == ATok("member", k, v)

\* The members of a reply that follows the prompt's format.
GoodMembers ==
    << Member("summary", Str("steady")),
       Member("recommendation", Str("Buy")),
       Member("confidenceScore", Num(8)),
       Member("reasons", Arr(3)),
       Member("riskLevel", Str("Low")),
       Member("shortTermOutlook", Str("up")),
       Member("longTermOutlook", Str("up")) >>

WithValue(ms, i, v) == [ms EXCEPT ![i] = Member(ms[i].k, v)]

\* Objects the generative model can answer with: nothing constrains its
\* output, so besides the requested shape there are objects with a field
\* missing, a label outside the requested ones, the confidence as a string
\* (as the prompt's template shows it) or as a percentage, extra reasons, a
\* repeated key and the empty object.
ReplyObjects ==
    { GoodMembers,
      SubSeq(GoodMembers, 1, 4) \o SubSeq(GoodMembers, 6, 7),
      WithValue(GoodMembers, 2, Str("Strong Buy")),
      WithValue(GoodMembers, 3, Str("0.8")),
      WithValue(GoodMembers, 3, Num(850)),
      WithValue(GoodMembers, 4, Arr(5)),
      WithValue(GoodMembers, 5, Str("Very High")),
      GoodMembers \o <<Member("recommendation", Str("Sell"))>>,
      <<Member("summary", Str("steady"))>>,
      << >> }

ObjText(ms) == <<LBrace>> \o ms \o <<RBrace>>

ReplyBodies ==
    {ObjText(ms) : ms \in ReplyObjects}
      \cup { << >>,                           \* no JSON at all
             <<LBrace, Prose, RBrace>>,       \* braces around non-JSON
             <<LBrace>> \o GoodMembers,       \* cut off by maxOutputTokens
             <<RBrace, Prose, LBrace>> }      \* braces in the wrong order

ReplyPrefixes == { << >>, <<Prose>>, <<LBrace, Prose, RBrace, Prose>> }

ReplySuffixes == { << >>, <<Prose>> }

ReplyTexts ==
    {pre \o body \o post :
        pre \in ReplyPrefixes, body \in ReplyBodies, post \in ReplySuffixes}

\* What `await model.generateContent(...)` and `response.text()` can do:
\* throw, or deliver a text.
ApiOutcomes ==
    {[kind |-> "throw", text |-> << >>]}
      \cup {[kind |-> "text", text |-> t] : t \in ReplyTexts}

Max(S) == CHOOSE x \in S : \A y \in S : y <= x

Min(S) == CHOOSE x \in S : \A y \in S : x <= y

\* text.match(/\{[\s\S]*\}/): from the first opening brace to the last
\* closing brace, if the latter comes after the former.
Match(text) ==
    LET lbs == {i \in DOMAIN text : text[i].t = "{"}
        rbs == {i \in DOMAIN text : text[i].t = "}"}
    IN  IF lbs # {} /\ rbs # {} /\ Max(rbs) > Min(lbs)
        THEN [found |-> TRUE, str |-> SubSeq(text, Min(lbs), Max(rbs))]
        ELSE [found |-> FALSE, str |-> << >>]

\* JSON.parse accepts a matched string when everything between its outer
\* braces is a member.
IsJSON(str) ==
    /\ Len(str) >= 2
    /\ str[1].t = "{"
    /\ str[Len(str)].t = "}"
    /\ \A i \in 2..(Len(str) - 1) : str[i].t = "member"

\* JSON.parse of an accepted string: an object holding, for each key, the
\* value of its last member.
JSONparseObject(str) ==
    LET inner == SubSeq(str, 2, Len(str) - 1)
        keys == {inner[i].k : i \in DOMAIN inner}
    IN  [k \in keys |->
            inner[Max({i \in DOMAIN inner : inner[i].k = k})].v]

NoResult == [none |-> NoVal]

\* The catch block: error toast and fallback record.
Caught(sd) ==
    [result |-> Fallback(sd), rejected |-> FALSE, toast |-> "error"]

\* getAIRecommendation from the point where the awaited API call settles.
GetAIRecommendation(sd, api) ==
    IF api.kind = "throw" THEN Caught(sd)
    ELSE LET jsonMatch == Match(api.text)
         IN  IF ~jsonMatch.found THEN Caught(sd)
             ELSE IF ~IsJSON(jsonMatch.str) THEN Caught(sd)
             ELSE [result |-> JSONparseObject(jsonMatch.str),
                   rejected |-> FALSE, toast |-> "none"]

AIIdle == [pc |-> "idle", sd |-> NoStock,
           api |-> [kind |-> "none", text |-> << >>],
           result |-> NoResult, rejected |-> FALSE, toast |-> "none"]

\* A caller invokes getAIRecommendation(stockData); the function runs up to
\* `await model.generateContent`.
AIStart(sd) ==
    /\ ai.pc = "idle"
    /\ ai' = [AIIdle EXCEPT !.pc = "await", !.sd = sd]
    /\ UNCHANGED <<wlVars, fetchVars, extraVars>>

\* The awaited call settles and the function runs to its return.
AISettle(api) ==
    /\ ai.pc = "await"
    /\ LET r == GetAIRecommendation(ai.sd, api)
       IN  ai' = [ai EXCEPT !.pc = "done", !.api = api, !.result = r.result,
                            !.rejected = r.rejected, !.toast = r.toast]
    /\ UNCHANGED <<wlVars, fetchVars, extraVars>>

\* The caller has consumed the promise.
AIReturn ==
    /\ ai.pc = "done"
    /\ ai' = AIIdle
    /\ UNCHANGED <<wlVars, fetchVars, extraVars>>

AINext ==
    \/ \E sd \in StockInputs : AIStart(sd)
    \/ \E api \in ApiOutcomes : AISettle(api)
    \/ AIReturn

-----------------------------------------------------------------------------
(* apiUtils.ts: the fetch functions and the client-side rate limiter       *)

\* A ticker as the code takes it apart: the "NSE:" prefix, the stock code
\* and the ".NS" suffix the public API wants for Indian listings.
Sym(nse, code) == [nse |-> nse, code |-> code, ns |-> FALSE]

NoSym == [nse |-> FALSE, code |-> "", ns |-> FALSE]

\* symbol.startsWith('NSE:') ? symbol.replace('NSE:', '') + '.NS' : symbol
ApiSymbol(sym) == [nse |-> FALSE, code |-> sym.code, ns |-> sym.nse]

\* `NSE:${symbol.replace('NSE:', '')}` of breezeUtils.getStockQuote
BreezeSymbol(sym) == [nse |-> TRUE, code |-> sym.code, ns |-> sym.ns]

\* An NSE listing with a predefined company name, an NSE listing without
\* one and a US listing.
FetchSymbols == {Sym(TRUE, "RELIANCE"), Sym(TRUE, "ZEEL"), Sym(FALSE, "AAPL")}

\* const trendingSymbols of fetchTrendingStocks
TrendingSymbols ==
    << Sym(TRUE, "RELIANCE"), Sym(TRUE, "TCS"), Sym(TRUE, "HDFCBANK"),
       Sym(TRUE, "INFY"), Sym(TRUE, "ICICIBANK"), Sym(TRUE, "BHARTIARTL"),
       Sym(TRUE, "HINDUNILVR"), Sym(TRUE, "SBIN"), Sym(TRUE, "WIPRO"),
       Sym(TRUE, "LT") >>

\* Only the first TrendLen trending symbols are fetched in the model.
TrendLen == 2

\* The keys of indianCompanies in fetchCompanyName that the model's symbols
\* can hit.
PredefinedIndianNames == {"RELIANCE", "TCS", "HDFCBANK", "INFY", "ICICIBANK",
                          "BHARTIARTL", "HINDUNILVR", "SBIN", "WIPRO", "LT"}

\* const API_CALL_LIMIT = 5
API_CALL_LIMIT == 5

\* The six entries of indexSymbols in fetchMarketIndices.
IndexCount == 6

FetchFns == {"fetchStockQuote", "fetchCompanyOverview", "fetchTimeSeriesData",
             "fetchMarketIndices", "fetchTrendingStocks", "searchStocks"}

\* The record type each function resolves to.
KindOf(fn) ==
    CASE fn = "fetchStockQuote" -> "quote"
      [] fn = "fetchCompanyOverview" -> "overview"
      [] fn = "fetchTimeSeriesData" -> "chart"
      [] fn = "fetchMarketIndices" -> "indices"
      [] fn = "fetchTrendingStocks" -> "quotes"
      [] fn = "searchStocks" -> "matches"

\* A value a fetch function resolves to: its kind ("null" for null), the
\* provider it came from, its symbol field, the JavaScript type of its
\* marketCap field, and whether a list holds a null entry.
Result(kind, src, sym, mcap) ==
    [kind |-> kind, src |-> src, sym |-> sym, mcap |-> mcap, nulls |-> FALSE]

NullResult == Result("null", "none", NoSym, "none")

\* generateMockStockData and the other generators: always a record, and
\* the overview's marketCap a string.
Mock(fn, sym) ==
    Result(KindOf(fn), "synthetic", sym,
           IF fn = "fetchCompanyOverview" THEN "string" ELSE "none")

\* One consultation of a provider and how it went.
Consult(p, out) == [p |-> p, out |-> out]

\* A call of a fetch function.  asked counts the breezeUtils functions it
\* has awaited and sent the HTTP requests it has issued; list holds the
\* quotes fetchTrendingStocks resolves to.
NewCall(fn, sym, by) ==
    [fn |-> fn, sym |-> sym, by |-> by, pc |-> "start", log |-> << >>,
     toast |-> "none", result |-> NullResult, rejected |-> FALSE,
     asked |-> 0, sent |-> 0, list |-> << >>]

NoFetch == [NewCall("none", NoSym, "none") EXCEPT !.pc = "idle"]

\* The limiter's module state as one value.
Limiter == [count |-> apiCallCount, timers |-> resetTimers,
            http |-> httpSinceReset]

\* A limiter that starts a reset timer with every call it counts.
ShouldUseMockDataTimerEach(l) ==
    IF l.count >= API_CALL_LIMIT
    THEN [mock |-> TRUE, l |-> l]
    ELSE [mock |-> FALSE,
          l |-> [l EXCEPT !.count = @ + 1, !.timers = @ + 1]]

\* A limiter that counts and never refuses.
ShouldUseMockDataNever(l) ==
    [mock |-> FALSE, l |-> [l EXCEPT !.count = @ + 1]]

\* shouldUseMockData(): refuse at the limit; otherwise count the call and,
\* when the count has just become 1, start the reset timer.
ShouldUseMockData(l) ==
    IF l.count >= API_CALL_LIMIT
    THEN [mock |-> TRUE, l |-> l]
    ELSE [mock |-> FALSE,
          l |-> [l EXCEPT !.count = @ + 1,
                          !.timers = IF l.count + 1 = 1 THEN @ + 1 ELSE @]]

\* A function that never looks at the brokerage.
ConsultsBrokerageNever(rev, fn) == FALSE

\* Whether the function starts with the isBreezeAPIAvailable() block: all
\* of them in the "breeze" revision, all but fetchCompanyOverview in the
\* "alpha" revision.
ConsultsBrokerage(rev, fn) ==
    ~(rev = "alpha" /\ fn = "fetchCompanyOverview")

\* A truthiness test that lets everything through.
BreezeDataOkAlways(fn, out) == TRUE

\* if (breezeData) / if (breezeData && breezeData.length > 0)
BreezeDataOk(fn, out) == out = "data"

\* What the awaited breezeUtils function can resolve to: a record, null
\* (also on every error, which breezeUtils catches) or, for the two list
\* functions, an empty list.
BreezeOutcomes(fn) ==
    {"data", "null"} \cup
    (IF fn \in {"fetchMarketIndices", "searchStocks"} THEN {"empty"} ELSE {})

\* The JavaScript type of marketCap in breezeUtils.getCompanyOverview's
\* record: a formatted string or "N/A" in revisions 1 and 2; in revision 3
\* data.marketCap || "N/A", which is whatever truthy value the brokerage
\* sent.
BreezeMarketCaps(rev) == IF rev = 3 THEN {"string", "number"} ELSE {"string"}

\* The value the breezeUtils function resolved to.
BreezeRecord(fn, sym, out, mcap) ==
    IF out = "null" THEN NullResult
    ELSE Result(KindOf(fn), "brokerage",
                IF fn \in {"fetchStockQuote", "fetchCompanyOverview"}
                THEN BreezeSymbol(sym) ELSE sym,
                IF fn = "fetchCompanyOverview" THEN mcap ELSE "none")

\* return ...: the async function resolves.
Finish(c, res, toast, entries) ==
    [c EXCEPT !.pc = "done", !.result = res, !.toast = toast,
              !.log = @ \o entries]

\* return generateMock...(symbol) after the given toast.
Synthetic(c, toast, entries) ==
    Finish(c, Mock(c.fn, c.sym), toast,
           entries \o <<Consult("synthetic", "record")>>)

\* Requests the function sends once the limiter has let it through.
Requests(fn) == IF fn = "fetchMarketIndices" THEN IndexCount ELSE 1

\* The public-API stage of the "alpha" revision up to its await: ask the
\* limiter, then either fall back or send the request(s).
PublicStage(c, l) ==
    LET m == ShouldUseMockData(l)
    IN  IF m.mock
        THEN [c |-> Synthetic(c, "info", <<Consult("public", "limited")>>),
              l |-> m.l]
        ELSE [c |-> [c EXCEPT !.pc = "http", !.sent = @ + Requests(c.fn)],
              l |-> [m.l EXCEPT !.http = @ + Requests(c.fn)]]

\* The code after the brokerage block.
AfterBrokerage(c, l) ==
    IF apiRev = "breeze"
    THEN [c |-> Synthetic(c, "info", << >>), l |-> l]
    ELSE PublicStage(c, l)

\* A fetch function from its first line to its first await (or return).
StartCall(c, l) ==
    IF ConsultsBrokerage(apiRev, c.fn)
    THEN IF breezeClient # "null"
         THEN [c |-> [c EXCEPT !.pc = "breeze", !.asked = @ + 1], l |-> l]
         ELSE AfterBrokerage(
                [c EXCEPT !.log = @ \o <<Consult("brokerage", "unavailable")>>],
                l)
    ELSE PublicStage(c, l)

\* The awaited breezeUtils function has resolved.
BreezeReturn(c, l, out, mcap) ==
    IF BreezeDataOk(c.fn, out)
    THEN [c |-> Finish(c, BreezeRecord(c.fn, c.sym, out, mcap), "success",
                       <<Consult("brokerage", "record")>>),
          l |-> l]
    ELSE AfterBrokerage(
           [c EXCEPT !.log = @ \o <<Consult("brokerage", "nodata")>>], l)

\* What fetch() and response.json() can do: reject, answer with a status
\* that is not ok, deliver a body that is not JSON, deliver the data, the
\* rate-limit Note, an object without the data, or data whose fields are
\* not what the code dereferences.
HttpOutcomes(fn) ==
    {"throw", "notok", "badjson", "data", "note", "empty"} \cup
    (IF fn \in {"fetchStockQuote", "fetchTimeSeriesData", "searchStocks"}
     THEN {"malformed"} ELSE {})

\* data.MarketCapitalization of the public API's OVERVIEW answer: a string,
\* or absent.
PublicMarketCaps == {"string", "undefined"}

\* fetchCompanyName up to its await, called from fetchStockQuote after the
\* quote arrived: the limiter is asked first; a predefined name (or any
\* name, when the limiter refuses) needs no request.
NameStage(c, l) ==
    LET m == ShouldUseMockData(l)
        res == Result("quote", "public", c.sym, "none")
        done == Finish(c, res, "success", <<Consult("public", "record")>>)
    IN  IF m.mock THEN [c |-> done, l |-> m.l]
        ELSE IF c.sym.nse /\ c.sym.code \in PredefinedIndianNames
             THEN [c |-> done, l |-> m.l]
             ELSE [c |-> [c EXCEPT !.pc = "nameHttp", !.toast = "success",
                                   !.sent = @ + 1],
                   l |-> [m.l EXCEPT !.http = @ + 1]]

\* A handler that sends the request once more when it has failed.
HttpReturnRetry(c, l, out, mcap) ==
    IF out = "throw" /\ c.sent < 2
    THEN [c |-> [c EXCEPT !.sent = @ + 1], l |-> [l EXCEPT !.http = @ + 1]]
    ELSE [c |-> Synthetic(c, "error", <<Consult("public", "error")>>), l |-> l]

\* The awaited request of fetchStockQuote, fetchCompanyOverview,
\* fetchTimeSeriesData or searchStocks has settled.
HttpReturn(c, l, out, mcap) ==
    IF out \in {"throw", "notok", "badjson", "malformed"}
    THEN [c |-> Synthetic(c, "error", <<Consult("public", "error")>>), l |-> l]
    ELSE IF out = "note"
    THEN [c |-> Synthetic(c, "warning", <<Consult("public", "nodata")>>),
          l |-> l]
    ELSE IF out = "empty"
    THEN [c |-> Synthetic(c, IF c.fn = "searchStocks" THEN "info"
                             ELSE "warning",
                          <<Consult("public", "nodata")>>),
          l |-> l]
    ELSE IF c.fn = "fetchStockQuote" THEN NameStage(c, l)
    ELSE [c |-> Finish(c,
                       Result(KindOf(c.fn), "public",
                              IF c.fn = "fetchCompanyOverview"
                              THEN ApiSymbol(c.sym) ELSE c.sym,
                              IF c.fn = "fetchCompanyOverview"
                              THEN mcap ELSE "none"),
                       "success", <<Consult("public", "record")>>),
          l |-> l]

\* The request of fetchCompanyName has settled: whatever happened, a name
\* comes back and fetchStockQuote returns its record.
NameReturn(c) ==
    Finish(c, Result("quote", "public", c.sym, "none"), "success",
           <<Consult("public", "record")>>)

\* Promise.all over the six index requests of fetchMarketIndices: each
\* request has its own try/catch and yields a real entry or a mock one.
IndicesReturn(c, real) ==
    IF real # {}
    THEN Finish(c, Result("indices", "public", c.sym, "none"), "success",
                <<Consult("public", "record")>>)
    ELSE Finish(c, Result("indices", "synthetic", c.sym, "none"), c.toast,
                <<Consult("public", "nodata"),
                  Consult("synthetic", "record")>>)

\* The limiter's module state written back.
SetLimiter(l) ==
    /\ apiCallCount' = l.count
    /\ resetTimers' = l.timers
    /\ httpSinceReset' = l.http

\* trendingSymbols.map(symbol => fetchStockQuote(symbol)): each call runs, in
\* list order, up to its first await.
RECURSIVE StartKids(_, _)
StartKids(n, l) ==
    IF n = 0 THEN [kids |-> << >>, l |-> l]
    ELSE LET before == StartKids(n - 1, l)
             r == StartCall(NewCall("fetchStockQuote", TrendingSymbols[n],
                                    "trending"), before.l)
         IN  [kids |-> Append(before.kids, r.c), l |-> r.l]

\* The promises of fetchTrendingStocks that have settled, in the order in
\* which they did: the order of their log entries in the parent call.
KidSettled(i) == Consult("settled", i)

\* The promises already settled when the map returns, in list order.
SettledAtStart(ks) ==
    LET RECURSIVE Upto(_)
        Upto(n) ==
            IF n = 0 THEN << >>
            ELSE Upto(n - 1) \o
                 (IF ks[n].pc = "done" THEN <<KidSettled(n)>> ELSE << >>)
    IN  Upto(Len(ks))

\* The i-th promise took a step: note when it settled.
NoteSettled(c, i, kid) ==
    IF kid.pc = "done" THEN [c EXCEPT !.log = Append(@, KidSettled(i))] ELSE c

\* A join that hands the values over in the order of settlement.
JoinInSettlementOrder(ks) ==
    [j \in 1..Len(ks) |-> ks[call.log[j].out].result]

\* Promise.all: the value of the i-th promise in the i-th place.
PromiseAll(ks) == [i \in 1..Len(ks) |-> ks[i].result]

FetchIdle == call.pc = "idle"

\* main.tsx calls initializeBreezeAPI(): the client object is assigned
\* before the session is generated, so it stays non-null whether or not the
\* session could be generated.  (Without credentials, or when the package
\* cannot be loaded, the call changes nothing.)
\* An initialisation that drops the handle it finds.
InitializeBreezeAPIWithTeardown ==
    /\ breezeClient' = IF breezeClient = "null" THEN "client" ELSE "null"
    /\ UNCHANGED <<wlVars, ai, extraVars, apiRev, brzRev, apiCallCount, resetTimers,
                   httpSinceReset, call, kids, hook>>

InitializeBreezeAPI ==
    /\ breezeClient = "null"
    /\ breezeClient' = "client"
    /\ UNCHANGED <<wlVars, ai, extraVars, apiRev, brzRev, apiCallCount, resetTimers,
                   httpSinceReset, call, kids, hook>>

\* The setTimeout callback of resetApiCallCount runs.
TimerFires ==
    /\ resetTimers > 0
    /\ resetTimers' = resetTimers - 1
    /\ apiCallCount' = 0
    /\ httpSinceReset' = 0
    /\ UNCHANGED <<wlVars, ai, extraVars, apiRev, brzRev, breezeClient, call, kids, hook>>

\* A page calls one of the fetch functions that take a symbol or a query.
PageCall(fn, sym) ==
    /\ FetchIdle
    /\ hook.pc \in {"idle", "done"}
    /\ LET r == StartCall(NewCall(fn, sym, "page"), Limiter)
       IN  call' = r.c /\ SetLimiter(r.l)
    /\ UNCHANGED <<wlVars, ai, extraVars, apiRev, brzRev, breezeClient, kids, hook>>

\* A page calls fetchTrendingStocks().
TrendingCall ==
    /\ FetchIdle
    /\ hook.pc \in {"idle", "done"}
    /\ LET r == StartKids(TrendLen, Limiter)
       IN  /\ kids' = r.kids
           /\ SetLimiter(r.l)
           /\ call' = [NewCall("fetchTrendingStocks", NoSym, "page")
                           EXCEPT !.pc = "join", !.log = SettledAtStart(r.kids)]
    /\ UNCHANGED <<wlVars, ai, extraVars, apiRev, brzRev, breezeClient, hook>>

\* The brokerage call the function awaits resolves.
BreezeResolves(out, mcap) ==
    /\ call.pc = "breeze"
    /\ out \in BreezeOutcomes(call.fn)
    /\ mcap \in BreezeMarketCaps(brzRev)
    /\ LET r == BreezeReturn(call, Limiter, out, mcap)
       IN  call' = r.c /\ SetLimiter(r.l)
    /\ UNCHANGED <<wlVars, ai, extraVars, apiRev, brzRev, breezeClient, kids, hook>>

\* The HTTP request the function awaits settles.
HttpResolves(out, mcap) ==
    /\ call.pc = "http"
    /\ call.fn # "fetchMarketIndices"
    /\ out \in HttpOutcomes(call.fn)
    /\ LET r == HttpReturn(call, Limiter, out, mcap)
       IN  call' = r.c /\ SetLimiter(r.l)
    /\ UNCHANGED <<wlVars, ai, extraVars, apiRev, brzRev, breezeClient, kids, hook>>

\* The six index requests of fetchMarketIndices have all settled.
IndicesResolve(real) ==
    /\ call.pc = "http"
    /\ call.fn = "fetchMarketIndices"
    /\ call' = IndicesReturn(call, real)
    /\ UNCHANGED <<wlVars, ai, extraVars, apiRev, brzRev, breezeClient, apiCallCount,
                   resetTimers, httpSinceReset, kids, hook>>

\* The request of fetchCompanyName settles.
NameResolves ==
    /\ call.pc = "nameHttp"
    /\ call' = NameReturn(call)
    /\ UNCHANGED <<wlVars, ai, extraVars, apiRev, brzRev, breezeClient, apiCallCount,
                   resetTimers, httpSinceReset, kids, hook>>

\* The brokerage call of the i-th trending quote resolves.
KidBreezeResolves(i, out) ==
    /\ call.pc = "join"
    /\ i \in DOMAIN kids
    /\ kids[i].pc = "breeze"
    /\ LET r == BreezeReturn(kids[i], Limiter, out, "none")
       IN  /\ kids' = [kids EXCEPT ![i] = r.c]
           /\ SetLimiter(r.l)
           /\ call' = NoteSettled(call, i, r.c)
    /\ UNCHANGED <<wlVars, ai, extraVars, apiRev, brzRev, breezeClient, hook>>

\* The HTTP request of the i-th trending quote settles.
KidHttpResolves(i, out) ==
    /\ call.pc = "join"
    /\ i \in DOMAIN kids
    /\ kids[i].pc = "http"
    /\ LET r == HttpReturn(kids[i], Limiter, out, "none")
       IN  /\ kids' = [kids EXCEPT ![i] = r.c]
           /\ SetLimiter(r.l)
           /\ call' = NoteSettled(call, i, r.c)
    /\ UNCHANGED <<wlVars, ai, extraVars, apiRev, brzRev, breezeClient, hook>>

\* await Promise.all(promises) of fetchTrendingStocks: the list of the
\* quotes, or the mock list if a quote rejected.
TrendJoin ==
    /\ call.pc = "join"
    /\ \A i \in DOMAIN kids : kids[i].pc = "done"
    /\ call' =
         IF \E i \in DOMAIN kids : kids[i].rejected
         THEN [Synthetic(call, "none", << >>) EXCEPT
                 !.list = [i \in 1..TrendLen |->
                             Mock("fetchStockQuote", TrendingSymbols[i])]]
         ELSE [Finish(call,
                      [Result("quotes", "mixed", NoSym, "none") EXCEPT
                         !.nulls = \E i \in DOMAIN kids :
                                      kids[i].result.kind = "null"],
                      "none", << >>)
               EXCEPT !.list = PromiseAll(kids)]
    /\ UNCHANGED <<wlVars, ai, extraVars, apiRev, brzRev, breezeClient, apiCallCount,
                   resetTimers, httpSinceReset, kids, hook>>

\* The page has taken the value the call resolved to.
PageConsume ==
    /\ call.pc = "done"
    /\ call.by = "page"
    /\ call' = NoFetch
    /\ kids' = << >>
    /\ UNCHANGED <<wlVars, ai, extraVars, apiRev, brzRev, breezeClient, apiCallCount,
                   resetTimers, httpSinceReset, hook>>

-----------------------------------------------------------------------------
(* useStockData                                                            *)

HookIdle ==
    [pc |-> "idle", sym |-> NoSym, stockData |-> "null", isLoading |-> FALSE,
     error |-> "null", quote |-> NullResult, overview |-> NullResult,
     toast |-> "none"]

\* parseFloat(overview.marketCap?.replace(/[^0-9.]/g, '') || '0') throws a
\* TypeError when marketCap is neither a string nor null/undefined; the
\* property reads on quote and overview throw when either is null.
SetStockDataThrows(quote, overview) ==
    \/ quote.kind = "null"
    \/ overview.kind = "null"
    \/ overview.mcap \notin {"string", "undefined", "none"}

\* catch (err) { setError(...); toast.error(...) } finally { ... }
HookCaught(h) ==
    [h EXCEPT !.pc = "done", !.error = "message", !.toast = "error",
              !.isLoading = FALSE]

\* The effect runs for a symbol: setIsLoading(true), setError(null) and the
\* call of fetchStockQuote.
HookFetch(sym) ==
    /\ FetchIdle
    /\ hook.pc \in {"idle", "done"}
    /\ hook' = [hook EXCEPT !.pc = "quote", !.sym = sym, !.isLoading = TRUE,
                            !.error = "null", !.toast = "none"]
    /\ LET r == StartCall(NewCall("fetchStockQuote", sym, "hook"), Limiter)
       IN  call' = r.c /\ SetLimiter(r.l)
    /\ UNCHANGED <<wlVars, ai, extraVars, apiRev, brzRev, breezeClient, kids>>

\* await fetchStockQuote(symbol) resumes; fetchCompanyOverview is called.
HookGotQuote ==
    /\ hook.pc = "quote"
    /\ call.pc = "done" /\ call.by = "hook"
    /\ IF call.rejected
       THEN /\ hook' = HookCaught(hook)
            /\ call' = NoFetch
            /\ UNCHANGED <<apiCallCount, resetTimers, httpSinceReset>>
       ELSE /\ hook' = [hook EXCEPT !.pc = "overview", !.quote = call.result]
            /\ LET r == StartCall(NewCall("fetchCompanyOverview", hook.sym,
                                          "hook"), Limiter)
               IN  call' = r.c /\ SetLimiter(r.l)
    /\ UNCHANGED <<wlVars, ai, extraVars, apiRev, brzRev, breezeClient, kids>>

\* await fetchCompanyOverview(symbol) resumes; fetchTimeSeriesData is called.
HookGotOverview ==
    /\ hook.pc = "overview"
    /\ call.pc = "done" /\ call.by = "hook"
    /\ IF call.rejected
       THEN /\ hook' = HookCaught(hook)
            /\ call' = NoFetch
            /\ UNCHANGED <<apiCallCount, resetTimers, httpSinceReset>>
       ELSE /\ hook' = [hook EXCEPT !.pc = "chart", !.overview = call.result]
            /\ LET r == StartCall(NewCall("fetchTimeSeriesData", hook.sym,
                                          "hook"), Limiter)
               IN  call' = r.c /\ SetLimiter(r.l)
    /\ UNCHANGED <<wlVars, ai, extraVars, apiRev, brzRev, breezeClient, kids>>

\* await fetchTimeSeriesData(symbol) resumes: the StockData record is built
\* and stored, or the catch block runs; then finally.
HookGotChart ==
    /\ hook.pc = "chart"
    /\ call.pc = "done" /\ call.by = "hook"
    /\ hook' = IF call.rejected \/ SetStockDataThrows(hook.quote, hook.overview)
               THEN HookCaught(hook)
               ELSE [hook EXCEPT !.pc = "done", !.stockData = "set",
                                 !.isLoading = FALSE]
    /\ call' = NoFetch
    /\ UNCHANGED <<wlVars, ai, extraVars, apiRev, brzRev, breezeClient, apiCallCount,
                   resetTimers, httpSinceReset, kids>>

FetchNext ==
    \/ InitializeBreezeAPI
    \/ TimerFires
    \/ \E sym \in FetchSymbols :
          \E fn \in {"fetchStockQuote", "fetchCompanyOverview",
                      "fetchTimeSeriesData"} : PageCall(fn, sym)
    \/ \E fn \in {"fetchMarketIndices", "searchStocks"} : PageCall(fn, NoSym)
    \/ TrendingCall
    \/ \E out \in {"data", "null", "empty"} :
          \E mcap \in {"string", "number"} : BreezeResolves(out, mcap)
    \/ \E out \in HttpOutcomes("fetchStockQuote") :
          \E mcap \in PublicMarketCaps : HttpResolves(out, mcap)
    \/ \E real \in SUBSET (1..IndexCount) : IndicesResolve(real)
    \/ NameResolves
    \/ \E i \in 1..TrendLen :
          \E out \in {"data", "null"} : KidBreezeResolves(i, out)
    \/ \E i \in 1..TrendLen :
          \E out \in HttpOutcomes("fetchStockQuote") : KidHttpResolves(i, out)
    \/ TrendJoin
    \/ PageConsume
    \/ \E sym \in FetchSymbols : HookFetch(sym)
    \/ HookGotQuote
    \/ HookGotOverview
    \/ HookGotChart

\* The state of the fetch layer when the module has been loaded.
FetchLoaded ==
    /\ breezeClient = "null"
    /\ apiCallCount = 0
    /\ resetTimers = 0
    /\ httpSinceReset = 0
    /\ call = NoFetch
    /\ kids = << >>
    /\ hook = HookIdle

\* Outside the fetch specification the build is the public-API revision
\* with the latest breezeUtils.
FetchFixed == apiRev = "alpha" /\ brzRev = 3 /\ FetchLoaded

-----------------------------------------------------------------------------
(* formatCurrency (apiUtils.ts)                                            *)

\* Symbols as character sequences, so that startsWith is computed.
SymChars == {"N", "S", "E", ":", "n", "A"}

\* Longest symbol formatCurrency is called with in the model.
MaxSymLen == 5

RECURSIVE CharSeqs(_)
CharSeqs(n) ==
    IF n = 0 THEN {<< >>}
    ELSE LET shorter == CharSeqs(n - 1)
         IN  shorter \cup {Append(t, ch) : t \in shorter, ch \in SymChars}

NSEPrefix == <<"N", "S", "E", ":">>

\* A test that finds the prefix anywhere in the string.
StartsWithAnywhere(str, prefix) ==
    \E i \in 1..Len(str) :
        /\ i + Len(prefix) - 1 <= Len(str)
        /\ SubSeq(str, i, i + Len(prefix) - 1) = prefix

\* String.prototype.startsWith
StartsWith(str, prefix) ==
    /\ Len(str) >= Len(prefix)
    /\ SubSeq(str, 1, Len(prefix)) = prefix

\* The Intl.NumberFormat formatCurrency builds for the symbol.
NumberFormatFor(symbol) ==
    IF StartsWith(symbol, NSEPrefix)
    THEN [locale |-> "en-IN", currency |-> "INR"]
    ELSE [locale |-> "en-US", currency |-> "USD"]

FmtIdle == [pc |-> "idle", symbol |-> << >>, omitted |-> FALSE,
            out |-> [locale |-> "none", currency |-> "none"]]

\* formatCurrency(num, symbol), or formatCurrency(num) with the default ''.
\* The digits of num play no part in the choice of the format and are not
\* modelled.
FormatCurrency(symbol, omitted) ==
    /\ fmt.pc = "idle"
    /\ fmt' = [pc |-> "done", symbol |-> symbol, omitted |-> omitted,
               out |-> NumberFormatFor(IF omitted THEN << >> ELSE symbol)]
    /\ UNCHANGED <<wlVars, ai, fetchVars, chart, runs, view, uiVars>>

\* The caller has used the string.
FormatConsume ==
    /\ fmt.pc = "done"
    /\ fmt' = FmtIdle
    /\ UNCHANGED <<wlVars, ai, fetchVars, chart, runs, view, uiVars>>

FormatNext ==
    \/ \E symbol \in CharSeqs(MaxSymLen) : FormatCurrency(symbol, FALSE)
    \/ FormatCurrency(<< >>, TRUE)
    \/ FormatConsume

-----------------------------------------------------------------------------
(* generateMockChartData (apiUtils.ts)                                     *)

\* Prices are held in thousandths of a currency unit, so that toFixed(2)
\* has something to round; products are rounded down to a thousandth.
Milli == 1000

\* const dataPoints = 100
DataPoints == 100

\* indianStockPrices[stockCode] for the listing the model uses (2934.75).
ReliancePrice == 2934750

\* Symbols the generator is called with: a US listing, an NSE listing with
\* a base price and an NSE listing without one.
ChartSymbols == {Sym(FALSE, "AAPL"), Sym(TRUE, "RELIANCE"), Sym(TRUE, "ZEEL")}

HasBasePrice(sym) == sym.nse /\ sym.code = "RELIANCE"

\* Math.random() * 2000 of the initial price of an unlisted NSE symbol, at
\* the two ends of its range.
StartRandoms == {0, 1999}

\* let currentPrice = 100; ... the initial price.
StartPrice(sym, rnd) ==
    IF HasBasePrice(sym) THEN ReliancePrice
    ELSE IF sym.nse THEN (1000 + rnd) * Milli
    ELSE 100 * Milli

\* volatilityFactor: 0.5% of the initial price for listed NSE symbols, 1%
\* for other NSE symbols, 2% for US symbols.
VolatilityFactor(sym, start) ==
    IF sym.nse
    THEN (IF HasBasePrice(sym) THEN (start * 5) \div 1000 ELSE start \div 100)
    ELSE (start * 2) \div 100

\* trendStrength = Math.random() * 0.3, in percent: none, weak, middle and
\* just below 0.3.
StrengthPercents == {0, 1, 15, 29}

\* Upward trends are explored up to this strength (a price that grows by
\* more each day leaves the range of the model's integers within the 100
\* days; it only moves away from the clamp).
MaxUpTrendPercent == 1

\* The clock may pass midnight this many times while the loop runs.
MaxMidnights == 1

\* A clamp that lets the price through.
ClampOff(price) == price

\* if (currentPrice < 1) currentPrice = 1;
Clamp(price) == IF price < 1 * Milli THEN 1 * Milli ELSE price

\* parseFloat(currentPrice.toFixed(2)) for a non-negative price: rounded to
\* the nearest hundredth.
ToFixed2(price) == ((price + 5) \div 10) * 10

\* The walk's next price: trend component, random component, clamp.
NextPrice(price, dir, strength, noise) ==
    Clamp(price + dir * ((price * strength) \div 100) + noise)

ChartIdle ==
    [pc |-> "idle", sym |-> NoSym, dir |-> 1, strength |-> 0, vol |-> 0,
     noise |-> 1,
     i |-> 0, currentPrice |-> 0, midnights |-> 0, len |-> 0,
     prevDate |-> 0, date |-> 0, value |-> 0]

\* generateMockChartData(symbol) up to the loop: initial price, volatility,
\* trend direction and strength.  noise is the end of its range at which
\* the random component stays while there is a trend.
GenerateMockChartData(sym, rnd, dir, strength, noise) ==
    /\ chart.pc \in {"idle", "done"}
    /\ dir = 1 => strength <= MaxUpTrendPercent
    /\ LET start == StartPrice(sym, rnd)
       IN  chart' = [ChartIdle EXCEPT !.pc = "loop", !.sym = sym, !.dir = dir,
                                      !.strength = strength,
                                      !.noise = noise,
                                      !.vol = VolatilityFactor(sym, start),
                                      !.currentPrice = start]
    /\ UNCHANGED <<wlVars, ai, fetchVars, fmt, runs, view, uiVars>>

\* Midnight passes between two iterations.
ChartMidnight ==
    /\ chart.pc = "loop"
    /\ chart.midnights < MaxMidnights
    /\ chart' = [chart EXCEPT !.midnights = @ + 1]
    /\ UNCHANGED <<wlVars, ai, fetchVars, fmt, runs, view, uiVars>>

\* One iteration of the loop: the date of the point, the new price and the
\* push; the random component is at one end of its range or the other
\* (without a trend the walk's prices recombine and every iteration
\* chooses afresh).
ChartIterate(sign) ==
    /\ chart.pc = "loop"
    /\ chart.i < DataPoints
    /\ chart.strength # 0 => sign = chart.noise
    /\ LET p == NextPrice(chart.currentPrice, chart.dir, chart.strength,
                          sign * chart.vol)
       IN  chart' = [chart EXCEPT
                       !.i = @ + 1,
                       !.currentPrice = p,
                       !.len = @ + 1,
                       !.prevDate = IF chart.len = 0
                                    THEN chart.midnights - (DataPoints - chart.i)
                                    ELSE chart.date,
                       !.date = chart.midnights - (DataPoints - chart.i),
                       !.value = ToFixed2(p)]
    /\ UNCHANGED <<wlVars, ai, fetchVars, fmt, runs, view, uiVars>>

\* The loop condition fails: return data.
ChartReturn ==
    /\ chart.pc = "loop"
    /\ chart.i >= DataPoints
    /\ chart' = [chart EXCEPT !.pc = "done"]
    /\ UNCHANGED <<wlVars, ai, fetchVars, fmt, runs, view, uiVars>>

ChartNext ==
    \/ \E sym \in ChartSymbols, rnd \in StartRandoms, dir \in {1, -1},
          strength \in StrengthPercents, noise \in {1, -1} :
            GenerateMockChartData(sym, rnd, dir, strength, noise)
    \/ ChartMidnight
    \/ \E sign \in {1, -1} : ChartIterate(sign)
    \/ ChartReturn

-----------------------------------------------------------------------------
(* useStockData with overlapping fetches                                   *)

\* fetchData invocations the model lets the hook start.
MaxRuns == 3

ViewInit == [symbol |-> NoSym, stockData |-> NoSym, isLoading |-> FALSE,
             error |-> "null"]

NewRun(sym) == [sym |-> sym, pc |-> "quote", numericCap |-> FALSE]

\* setSymbol(sym) with a new symbol (or the first render with
\* initialSymbol): the component re-renders, the effect runs and fetchData
\* starts: setIsLoading(true), setError(null) and the call of
\* fetchStockQuote.  Nothing cancels the invocations already in flight.
SetSymbol(sym) ==
    /\ sym # view.symbol
    /\ Len(runs) < MaxRuns
    /\ view' = [view EXCEPT !.symbol = sym, !.isLoading = TRUE,
                            !.error = "null"]
    /\ runs' = Append(runs, NewRun(sym))
    /\ UNCHANGED <<wlVars, ai, fetchVars, fmt, chart, uiVars>>

\* await fetchStockQuote(symbol) of invocation i resumes.
RunGotQuote(i) ==
    /\ i \in DOMAIN runs
    /\ runs[i].pc = "quote"
    /\ runs' = [runs EXCEPT ![i].pc = "overview"]
    /\ UNCHANGED <<wlVars, ai, fetchVars, fmt, chart, view, uiVars>>

\* await fetchCompanyOverview(symbol) of invocation i resumes, the
\* overview's marketCap being a number or not.
RunGotOverview(i, numericCap) ==
    /\ i \in DOMAIN runs
    /\ runs[i].pc = "overview"
    /\ runs' = [runs EXCEPT ![i].pc = "chart", ![i].numericCap = numericCap]
    /\ UNCHANGED <<wlVars, ai, fetchVars, fmt, chart, view, uiVars>>

\* await fetchTimeSeriesData(symbol) of invocation i resumes: setStockData
\* with the fetched symbol's record, or the catch block; then finally.
RunGotChart(i) ==
    /\ i \in DOMAIN runs
    /\ runs[i].pc = "chart"
    /\ runs' = [runs EXCEPT ![i].pc = "done"]
    /\ view' = IF runs[i].numericCap
               THEN [view EXCEPT !.error = "message", !.isLoading = FALSE]
               ELSE [view EXCEPT !.stockData = runs[i].sym,
                                 !.isLoading = FALSE]
    /\ UNCHANGED <<wlVars, ai, fetchVars, fmt, chart, uiVars>>

HookNext ==
    \/ \E sym \in FetchSymbols : SetSymbol(sym)
    \/ \E i \in 1..MaxRuns : RunGotQuote(i)
    \/ \E i \in 1..MaxRuns : \E numericCap \in BOOLEAN :
          RunGotOverview(i, numericCap)
    \/ \E i \in 1..MaxRuns : RunGotChart(i)

-----------------------------------------------------------------------------
(* getAIRecommendation (utils/stockUtils.ts)                               *)

\* priceChangePercent in tenths of a percent, on both sides of and at the
\* thresholds 2, 0.5, 0, -0.5 and -2.
PriceChangeTenths == {-30, -20, -10, -5, -1, 0, 1, 5, 10, 20, 30}

\* peRatio on both sides of and at 15 and 30.
ScorePeRatios == {10, 15, 20, 30, 35}

\* volume and avgVolume: ratios 0, 1.5 and 2, and the divisions by zero.
ScoreVolumes == {0, 3, 4}

ScoreAvgVolumes == {0, 2}

\* volume / avgVolume > 1.5 in floating point: x/0 is Infinity for x > 0
\* and 0/0 is NaN, which compares false.
VolumeRatioHigh(volume, avgVolume) ==
    IF avgVolume = 0 THEN volume > 0 ELSE 2 * volume > 3 * avgVolume

Step(d, reason) == [d |-> d, reasons |-> IF reason = "" THEN << >>
                                          ELSE <<reason>>]

\* Factor 1: price momentum
MomentumFactor(pcp) ==
    IF pcp > 20 THEN Step(15, "Strong positive price momentum")
    ELSE IF pcp > 5 THEN Step(7, "Positive price trend")
    ELSE IF pcp < -20 THEN Step(-15, "Significant price decline")
    ELSE IF pcp < -5 THEN Step(-7, "Negative price trend")
    ELSE Step(0, "")

\* Factor 2: P/E ratio evaluation
PeFactor(pe) ==
    IF pe < 15 THEN Step(10, "Attractive P/E ratio")
    ELSE IF pe > 30 THEN Step(-10, "High P/E ratio")
    ELSE Step(0, "")

\* A volume factor that rewards high volume whatever the price did.
VolumeFactorIgnoringSign(pcp, volume, avgVolume) ==
    IF VolumeRatioHigh(volume, avgVolume)
    THEN Step(12, "High volume supporting price increase")
    ELSE Step(0, "")

\* Factor 3: volume analysis
VolumeFactor(pcp, volume, avgVolume) ==
    IF VolumeRatioHigh(volume, avgVolume) /\ pcp > 0
    THEN Step(12, "High volume supporting price increase")
    ELSE IF VolumeRatioHigh(volume, avgVolume) /\ pcp < 0
    THEN Step(-12, "High volume driving price down")
    ELSE Step(0, "")

\* Determine recommendation based on score
ScoreRecommendation(sc) ==
    IF sc >= 65 THEN "Buy" ELSE IF sc <= 35 THEN "Sell" ELSE "Hold"

\* Math.min(100, Math.max(0, Math.abs(score - 50) * 2))
ScoreConfidence(sc) == Min({100, Max({0, Abs(sc - 50) * 2})})

\* reasons.slice(0, 3)
SliceTop3(reasons) == SubSeq(reasons, 1, Min({3, Len(reasons)}))

ScoreIdle ==
    [pc |-> "idle", pcp |-> 0, pe |-> 0, volume |-> 0, avgVolume |-> 0,
     beforeVolume |-> 50, score |-> 50, recommendation |-> "none",
     confidence |-> 0, reasons |-> << >>]

\* getAIRecommendation(priceChangePercent, peRatio, volume, avgVolume) of
\* stockUtils, from let score = 50 to the return.
StockUtilsGetAIRecommendation(pcp, pe, volume, avgVolume) ==
    /\ score.pc = "idle"
    /\ LET m == MomentumFactor(pcp)
           p == PeFactor(pe)
           v == VolumeFactor(pcp, volume, avgVolume)
           sc == 50 + m.d + p.d + v.d
       IN  score' = [pc |-> "done", pcp |-> pcp, pe |-> pe,
                     volume |-> volume, avgVolume |-> avgVolume,
                     beforeVolume |-> 50 + m.d + p.d,
                     score |-> sc,
                     recommendation |-> ScoreRecommendation(sc),
                     confidence |-> ScoreConfidence(sc),
                     reasons |-> SliceTop3(m.reasons \o p.reasons
                                             \o v.reasons)]
    /\ UNCHANGED <<coreVars, bar, dash, page, boot, disp>>

\* The caller has used the record.
ScoreConsume ==
    /\ score.pc = "done"
    /\ score' = ScoreIdle
    /\ UNCHANGED <<coreVars, bar, dash, page, boot, disp>>

ScoreNext ==
    \/ \E pcp \in PriceChangeTenths, pe \in ScorePeRatios,
          volume \in ScoreVolumes, avgVolume \in ScoreAvgVolumes :
            StockUtilsGetAIRecommendation(pcp, pe, volume, avgVolume)
    \/ ScoreConsume

-----------------------------------------------------------------------------
(* SearchBar (components/ui/SearchBar.tsx)                                 *)

\* The characters typed into the input in the model: a blank and letters.
BarChars == {" ", "a", "b"}

\* Longest query typed in the model.
MaxQueryLen == 2

RECURSIVE BarQueries(_)
BarQueries(n) ==
    IF n = 0 THEN {<< >>}
    ELSE LET shorter == BarQueries(n - 1)
         IN  shorter \cup {Append(t, ch) : t \in shorter, ch \in BarChars}

\* String.prototype.trim
RECURSIVE Trim(_)
Trim(q) ==
    IF q = << >> THEN q
    ELSE IF Head(q) = " " THEN Trim(Tail(q))
    ELSE IF q[Len(q)] = " " THEN Trim(SubSeq(q, 1, Len(q) - 1))
    ELSE q

\* setTimeout(fetchSuggestions, 300): the delay in ticks of 100 ms.
DebounceTicks == 3

\* Lookups in flight at a time in the model.
MaxLookups == 1

NoLookup == [made |-> FALSE, q |-> << >>, arg |-> << >>, age |-> 0,
             current |-> FALSE]

NoFire == [fired |-> FALSE, q |-> << >>, looked |-> FALSE]

\* query is the state cell; timers the pending debounce timers, each with
\* the query of the closure it will run and its age in ticks; inflight the
\* arguments of the searchStocks calls that have not settled; lastLookup
\* and lastFire remember the last searchStocks call and the last run of
\* fetchSuggestions; cancelled whether a pending timer was ever cleared.
BarIdle ==
    [pc |-> "idle", query |-> << >>, timers |-> << >>,
     suggestions |-> [of |-> "none", q |-> << >>], isSearching |-> FALSE,
     inflight |-> << >>, lastLookup |-> NoLookup, lastFire |-> NoFire,
     cancelled |-> FALSE]

NewTimer(q) == [q |-> q, age |-> 0]

\* A cleanup that leaves the timer running.
ClearTimeoutForgotten(timers) == timers

\* return () => clearTimeout(debounceTimer): the timer of the effect being
\* cleaned up is the one set last; clearing a timer that has fired does
\* nothing.
ClearTimeout(timers) ==
    IF timers = << >> THEN timers ELSE SubSeq(timers, 1, Len(timers) - 1)

\* The effect on [query]: cleanup of the previous effect, then setTimeout.
QueryEffect(b, q) ==
    [b EXCEPT !.query = q,
              !.timers = Append(ClearTimeout(b.timers), NewTimer(q)),
              !.cancelled = @ \/ b.timers # << >>]

\* SearchBar mounts with query "": the effect runs for the first render.
BarMount ==
    /\ bar.pc = "idle"
    /\ bar' = [QueryEffect(bar, << >>) EXCEPT !.pc = "mounted",
                                               !.cancelled = FALSE]
    /\ UNCHANGED <<coreVars, score, dash, page, boot, disp>>

\* onChange, handleClear or handleSelect: setQuery(q) with a new value,
\* the re-render and the effect (a discrete event: flushed synchronously).
\* handleClear and handleSelect also empty the suggestions.
SetQuery(q, clears) ==
    /\ bar.pc = "mounted"
    /\ q # bar.query
    /\ bar' = [QueryEffect(bar, q) EXCEPT
                 !.suggestions = IF clears THEN [of |-> "cleared", q |-> << >>]
                                 ELSE @]
    /\ UNCHANGED <<coreVars, score, dash, page, boot, disp>>

\* 100 ms pass: a timer that is due fires before more time passes.
BarTick ==
    /\ bar.pc = "mounted"
    /\ bar.timers # << >>
    /\ \A i \in DOMAIN bar.timers : bar.timers[i].age < DebounceTicks
    /\ bar' = [bar EXCEPT !.timers =
                 [i \in DOMAIN bar.timers |->
                    [bar.timers[i] EXCEPT !.age = @ + 1]]]
    /\ UNCHANGED <<coreVars, score, dash, page, boot, disp>>

\* The i-th timer fires: fetchSuggestions runs in the closure of its
\* render, up to its return or to await searchStocks(...).
BarTimerFires(i) ==
    /\ bar.pc = "mounted"
    /\ i \in DOMAIN bar.timers
    /\ bar.timers[i].age >= DebounceTicks
    /\ LET t == bar.timers[i]
           rest == SubSeq(bar.timers, 1, i - 1)
                     \o SubSeq(bar.timers, i + 1, Len(bar.timers))
       IN  IF Len(Trim(t.q)) < 2
           THEN bar' = [bar EXCEPT
                          !.timers = rest,
                          !.suggestions = [of |-> "cleared", q |-> << >>],
                          !.lastFire = [fired |-> TRUE, q |-> t.q,
                                        looked |-> FALSE]]
           ELSE /\ Len(bar.inflight) < MaxLookups
                /\ bar' = [bar EXCEPT
                             !.timers = rest,
                             !.isSearching = TRUE,
                             !.inflight = Append(@, Trim(t.q)),
                             !.lastLookup = [made |-> TRUE, q |-> t.q,
                                             arg |-> Trim(t.q), age |-> t.age,
                                             current |-> t.q = bar.query],
                             !.lastFire = [fired |-> TRUE, q |-> t.q,
                                           looked |-> TRUE]]
    /\ UNCHANGED <<coreVars, score, dash, page, boot, disp>>

\* searchStocks settles (it does not reject): setSuggestions(results) and
\* the finally block.
BarLookupSettles ==
    /\ bar.pc = "mounted"
    /\ bar.inflight # << >>
    /\ bar' = [bar EXCEPT
                 !.inflight = Tail(@),
                 !.suggestions = [of |-> "results", q |-> Head(bar.inflight)],
                 !.isSearching = FALSE]
    /\ UNCHANGED <<coreVars, score, dash, page, boot, disp>>

\* The component unmounts: the cleanup clears the timer.
BarUnmount ==
    /\ bar.pc = "mounted"
    /\ bar' = BarIdle
    /\ UNCHANGED <<coreVars, score, dash, page, boot, disp>>

BarNext ==
    \/ BarMount
    \/ \E q \in BarQueries(MaxQueryLen) : \E clears \in BOOLEAN :
          SetQuery(q, clears)
    \/ BarTick
    \/ \E i \in 1..2 : BarTimerFires(i)
    \/ BarLookupSettles
    \/ BarUnmount

-----------------------------------------------------------------------------
(* Amounts on screen: StockAnalysis header, MarketOverview, WatchlistCard  *)

\* The market indices MarketOverview is given: the six the aggregation layer
\* returns, and the two US names of the component's own table.
MarketIndices ==
    {
      [name |-> <<"N", "I", "F", "T", "Y", " ", "5", "0">>,
       currency |-> "INR"],
      [name |-> <<"B", "a", "n", "k", " ", "N", "I", "F", "T", "Y">>,
       currency |-> "INR"],
      [name |-> <<"N", "I", "F", "T", "Y", " ", "I", "T">>,
       currency |-> "INR"],
      [name |-> <<"S", "E", "N", "S", "E", "X">>,
       currency |-> "INR"],
      [name |-> <<"N", "I", "F", "T", "Y", " ", "M", "i", "d", "c", "a", "p", " ", "5", "0">>,
       currency |-> "INR"],
      [name |-> <<"N", "I", "F", "T", "Y", " ", "A", "u", "t", "o">>,
       currency |-> "INR"],
      [name |-> <<"S", "&", "P", " ", "5", "0", "0">>,
       currency |-> "USD"],
      [name |-> <<"D", "o", "w", " ", "J", "o", "n", "e", "s">>,
       currency |-> "USD"]
    }

\* An index as the component receives it, with the sign of its change.
IndexProps == {[name |-> i.name, currency |-> i.currency, up |-> u] :
               i \in MarketIndices, u \in BOOLEAN}

\* Symbols of the stocks shown.
DisplaySymbols ==
    { <<"N", "S", "E", ":", "R", "E", "L", "I", "A", "N", "C", "E">>,
      <<"N", "S", "E", ":", "T", "C", "S">>,
      <<"A", "A", "P", "L">> }

StockProps == {[symbol |-> s, up |-> u] : s \in DisplaySymbols, u \in BOOLEAN}

\* Longest list a component is rendered with in the model.
MaxRows == 2

RECURSIVE ListsOf(_, _)
ListsOf(S, n) ==
    IF n = 0 THEN {<< >>}
    ELSE LET shorter == ListsOf(S, n - 1)
         IN  shorter \cup {Append(l, x) : l \in {m \in shorter : Len(m) = n - 1},
                                          x \in S}

\* String.prototype.includes
IncludesText(str, sub) ==
    \E i \in 1..(Len(str) + 1) :
        /\ i + Len(sub) - 1 <= Len(str)
        /\ SubSeq(str, i, i + Len(sub) - 1) = sub

NIFTY == <<"N", "I", "F", "T", "Y">>

\* MarketOverview.isIndianIndex
IsIndianIndex(name) == IncludesText(name, NIFTY)

\* The symbol MarketOverview hands to formatCurrency for an index.
IndexFormatSymbol(name) ==
    IF IsIndianIndex(name) THEN <<"N", "S", "E", ":", "N", "I", "F", "T", "Y", "5", "0">> ELSE << >>

\* The currency field useStockData stores with the stock.
StockDataCurrency(symbol) ==
    IF StartsWith(symbol, NSEPrefix) THEN <<"I", "N", "R">> ELSE <<"U", "S", "D">>

\* A template literal "$" followed by toFixed(2): no Intl.NumberFormat.
DollarLiteral == [locale |-> "literal", currency |-> "USD"]

DispIdle == [pc |-> "idle", site |-> "none", cells |-> << >>]

\* One formatted amount on the screen: the heading of its row, what it is
\* the amount of, whether that instrument is INR-denominated, the format it
\* was written in, and the trend class of its row (change >= 0).
Cell(heading, field, inr, out, up) ==
    [heading |-> heading, field |-> field, inr |-> inr, out |-> out,
     up |-> up]

\* The two amounts of one MarketOverview row (value, then |change|).
IndexCells(index) ==
    LET out == NumberFormatFor(IndexFormatSymbol(index.name))
        inr == index.currency = "INR"
    IN  <<Cell(index.name, "value", inr, out, index.up),
          Cell(index.name, "change", inr, out, index.up)>>

\* The price of one WatchlistCard row.
WatchlistCells(stock) ==
    <<Cell(stock.symbol, "price", StartsWith(stock.symbol, NSEPrefix),
           DollarLiteral, stock.up)>>

RECURSIVE FlatMap(_, _)
FlatMap(Op(_), list) ==
    IF list = << >> THEN << >>
    ELSE Op(Head(list)) \o FlatMap(Op, Tail(list))

\* StockAnalysis renders its price header for the stock in stockData.
RenderStockAnalysis(stock) ==
    /\ disp.pc = "idle"
    /\ LET currency == StockDataCurrency(stock.symbol)
           out == NumberFormatFor(currency)
           inr == StartsWith(stock.symbol, NSEPrefix)
       IN  disp' = [pc |-> "shown", site |-> "StockAnalysis",
                    cells |-> <<Cell(stock.symbol, "price", inr, out,
                                     stock.up),
                                Cell(stock.symbol, "change", inr, out,
                                     stock.up)>>]
    /\ UNCHANGED <<coreVars, score, bar, dash, page, boot>>

\* MarketOverview renders the indices it was given.
RenderMarketOverview(indices) ==
    /\ disp.pc = "idle"
    /\ disp' = [pc |-> "shown", site |-> "MarketOverview",
                cells |-> FlatMap(IndexCells, indices)]
    /\ UNCHANGED <<coreVars, score, bar, dash, page, boot>>

\* WatchlistCard renders the stocks it was given (none: the empty card).
RenderWatchlistCard(stocks) ==
    /\ disp.pc = "idle"
    /\ disp' = [pc |-> "shown", site |-> "WatchlistCard",
                cells |-> FlatMap(WatchlistCells, stocks)]
    /\ UNCHANGED <<coreVars, score, bar, dash, page, boot>>

\* The component leaves the screen.
DisplayUnmount ==
    /\ disp.pc = "shown"
    /\ disp' = DispIdle
    /\ UNCHANGED <<coreVars, score, bar, dash, page, boot>>

DisplayNext ==
    \/ \E stock \in StockProps : RenderStockAnalysis(stock)
    \/ \E indices \in ListsOf(IndexProps, MaxRows) : RenderMarketOverview(indices)
    \/ \E stocks \in ListsOf(StockProps, MaxRows) : RenderWatchlistCard(stocks)
    \/ DisplayUnmount

-----------------------------------------------------------------------------

(* Dashboard: the watchlist quotes                                         *)

\* Most fetchWatchlistData runs one Dashboard starts in the model.
MaxBatches == 4

DashIdle == [pc |-> "idle", watchlist |-> << >>, watchlistData |-> << >>,
             isLoading |-> TRUE, batches |-> << >>]

\* The quotes Promise.all resolves with, in the order of the list fetched:
\* each is written as the symbol it was requested for.
QuotesFor(list) == list

\* The effect on [watchlist]: fetchWatchlistData up to its await.
FetchWatchlistData(d, list) ==
    IF list = << >>
    THEN [d EXCEPT !.watchlist = list, !.watchlistData = << >>,
                   !.isLoading = FALSE]
    ELSE [d EXCEPT !.watchlist = list, !.isLoading = TRUE,
                   !.batches = Append(@, [list |-> list, pc |-> "flight"])]

\* Dashboard mounts: useWatchlist reads the saved list, the effect runs.
DashMount(saved) ==
    /\ dash.pc = "idle"
    /\ dash' = FetchWatchlistData([DashIdle EXCEPT !.pc = "mounted"], saved)
    /\ UNCHANGED <<coreVars, score, bar, page, boot, disp>>

\* handleAddSymbol with a symbol not yet on the list; the new array re-runs
\* the effect.
HandleAddSymbol(symbol) ==
    /\ dash.pc = "mounted"
    /\ ~Includes(dash.watchlist, symbol)
    /\ Len(dash.batches) < MaxBatches
    /\ dash' = FetchWatchlistData(dash, Append(dash.watchlist, symbol))
    /\ UNCHANGED <<coreVars, score, bar, page, boot, disp>>

\* The X button of a row: removeFromWatchlist(stock.symbol). The rows are
\* on screen only when the list is not empty and isLoading is false.
DashRemoveFromWatchlist(i) ==
    /\ dash.pc = "mounted"
    /\ dash.watchlist # << >>
    /\ ~dash.isLoading
    /\ i \in DOMAIN dash.watchlistData
    /\ Len(dash.batches) < MaxBatches
    /\ dash' = FetchWatchlistData(dash,
                   FilterOut(dash.watchlist, dash.watchlistData[i]))
    /\ UNCHANGED <<coreVars, score, bar, page, boot, disp>>

\* Promise.all of one batch resolves: setWatchlistData, then finally.
BatchResolves(b) ==
    /\ dash.pc = "mounted"
    /\ b \in DOMAIN dash.batches
    /\ dash.batches[b].pc = "flight"
    /\ dash' = [dash EXCEPT !.batches[b].pc = "settled",
                            !.watchlistData = QuotesFor(dash.batches[b].list),
                            !.isLoading = FALSE]
    /\ UNCHANGED <<coreVars, score, bar, page, boot, disp>>

DashNext ==
    \/ \E saved \in DupFreeLists : DashMount(saved)
    \/ \E symbol \in WatchSymbols : HandleAddSymbol(symbol)
    \/ \E i \in 1..Cardinality(WatchSymbols) : DashRemoveFromWatchlist(i)
    \/ \E b \in 1..MaxBatches : BatchResolves(b)

(* StockAnalysis: the AI recommendation effect                             *)

\* Most stockData objects useStockData hands to one StockAnalysis page in
\* the model.
MaxDeliveries == 4

\* No stockData object / no recommendation (null).
NoStockData == [sym |-> NoSym, n |-> 0]

PageIdle == [pc |-> "idle", stockData |-> NoStockData,
             aiRecommendation |-> NoStockData, isLoadingAI |-> FALSE,
             requests |-> << >>]

\* StockAnalysis mounts; stockData is null and the effect body is skipped.
PageMount ==
    /\ page.pc = "idle"
    /\ page' = [PageIdle EXCEPT !.pc = "mounted"]
    /\ UNCHANGED <<coreVars, score, bar, dash, boot, disp>>

\* The effect on [stockData] for a non-null stockData: fetchAIRecommendation
\* up to its await.
AIEffect(p, sd) ==
    [p EXCEPT !.stockData = sd, !.isLoadingAI = TRUE,
              !.requests = Append(@, [sd |-> sd, pc |-> "flight"])]

\* useStockData sets a new stockData object (a new symbol's, or the same
\* symbol's fetched again); the page re-renders and the effect runs.
StockDataChanges(sym) ==
    /\ page.pc = "mounted"
    /\ Len(page.requests) < MaxDeliveries
    /\ page' = AIEffect(page, [sym |-> sym, n |-> Len(page.requests) + 1])
    /\ UNCHANGED <<coreVars, score, bar, dash, boot, disp>>

\* await getAIRecommendation(stockData) of request r resumes, in the try or
\* in the catch: setAiRecommendation with a recommendation made from the
\* stockData of that effect run, then finally setIsLoadingAI(false).
AIRequestSettles(r) ==
    /\ page.pc = "mounted"
    /\ r \in DOMAIN page.requests
    /\ page.requests[r].pc = "flight"
    /\ page' = [page EXCEPT !.requests[r].pc = "settled",
                            !.aiRecommendation = page.requests[r].sd,
                            !.isLoadingAI = FALSE]
    /\ UNCHANGED <<coreVars, score, bar, dash, boot, disp>>

PageNext ==
    \/ PageMount
    \/ \E sym \in FetchSymbols : StockDataChanges(sym)
    \/ \E r \in 1..MaxDeliveries : AIRequestSettles(r)

(* Start-up: initializeAPI (main.tsx) against the first fetches            *)

\* Most fetch-function calls the pages make in the model.
MaxRequests == 3

\* const testStocks of initializeAPI
TestStocks == 4

BootIdle == [pc |-> "idle", session |-> "none", resolved |-> "pending",
             tested |-> 0, requests |-> << >>]

bootRest == <<wlVars, ai, apiRev, brzRev, apiCallCount, resetTimers,
              httpSinceReset, call, kids, hook, fmt, chart, runs, view,
              score, bar, dash, page, disp>>

\* The fetch functions of the aggregation layer.
FetchFunctions == {"fetchStockQuote", "fetchCompanyOverview",
                   "fetchTimeSeriesData", "fetchMarketIndices",
                   "searchStocks"}

\* The client method the connector function behind fn calls first.
ClientMethod(rev, fn) ==
    CASE fn = "fetchStockQuote" -> "getQuotes"
      [] fn = "fetchMarketIndices" -> "getQuotes"
      [] fn = "searchStocks" -> "getNames"
      [] fn = "fetchCompanyOverview" ->
             IF rev = 3 THEN "getQuotes" ELSE "getNames"
      [] fn = "fetchTimeSeriesData" ->
             IF rev = 3 THEN "getHistoricalData" ELSE "getHistoricalDatav2"

\* breezeClient = new BreezeConnect(...), then the call of generateSession.
NewClient(b) == [b EXCEPT !.pc = "session", !.session = "pending"]

\* initializeBreezeAPI resolves false.
ResolveFalse(b) == [b EXCEPT !.pc = "done", !.resolved = "false"]

\* main.tsx: initializeAPI(), not awaited, runs up to the first await inside
\* initializeBreezeAPI.  configured: the three credentials are set; global:
\* window.BreezeConnect exists.
InitializeAPI(configured, global) ==
    /\ boot.pc = "idle"
    /\ IF ~configured
       THEN boot' = ResolveFalse(boot) /\ UNCHANGED breezeClient
       ELSE IF brzRev = 3
       THEN boot' = [boot EXCEPT !.pc = "import"] /\ UNCHANGED breezeClient
       ELSE IF global
       THEN boot' = NewClient(boot) /\ breezeClient' = "client"
       ELSE IF brzRev = 1
       THEN boot' = [boot EXCEPT !.pc = "script"] /\ UNCHANGED breezeClient
       ELSE boot' = ResolveFalse(boot) /\ UNCHANGED breezeClient
    /\ UNCHANGED bootRest

\* The script's onload / onerror (first revision) or the dynamic import
\* (third revision) completes, with or without the library.
LibraryLoads(ok) ==
    /\ boot.pc \in {"script", "import"}
    /\ IF ok
       THEN boot' = NewClient(boot) /\ breezeClient' = "client"
       ELSE boot' = ResolveFalse(boot) /\ UNCHANGED breezeClient
    /\ UNCHANGED bootRest

\* await breezeClient.generateSession(...) resumes or throws.
GenerateSessionSettles(ok) ==
    /\ boot.pc = "session"
    /\ boot' = IF ~ok
               THEN [ResolveFalse(boot) EXCEPT !.session = "failed"]
               ELSE IF brzRev = 3
               THEN [boot EXCEPT !.session = "ok", !.pc = "quotes",
                                 !.resolved = "true"]
               ELSE [boot EXCEPT !.session = "ok", !.pc = "test"]
    /\ UNCHANGED <<bootRest, breezeClient>>

\* The test getQuotes of the first two revisions resumes: Success, no
\* Success, or an exception.
TestQuotesSettles(out) ==
    /\ boot.pc = "test"
    /\ boot' = IF out = "success"
               THEN [boot EXCEPT !.pc = "quotes", !.resolved = "true"]
               ELSE ResolveFalse(boot)
    /\ UNCHANGED <<bootRest, breezeClient>>

\* initializeAPI, initialised: the next getStockQuote of its testStocks loop.
InitializeAPITestsStock ==
    /\ boot.pc = "quotes"
    /\ boot' = [boot EXCEPT !.tested = @ + 1,
                            !.pc = IF boot.tested + 1 = TestStocks
                                   THEN "done" ELSE "quotes"]
    /\ UNCHANGED <<bootRest, breezeClient>>

\* breezeUtils.isBreezeAPIAvailable
IsBreezeAPIAvailable == breezeClient # "null"

\* A mounted page calls a fetch function: the isBreezeAPIAvailable() block,
\* and inside the connector function the client method, sent at once.  The
\* request is recorded with the state of the session at that moment.
FetchAtStartup(fn) ==
    /\ boot.pc # "idle"
    /\ Len(boot.requests) < MaxRequests
    /\ boot' = [boot EXCEPT !.requests = Append(@,
           [fn |-> fn,
            via |-> IF ConsultsBrokerage(apiRev, fn) /\ IsBreezeAPIAvailable
                    THEN ClientMethod(brzRev, fn) ELSE "none",
            session |-> boot.session,
            resolved |-> boot.resolved])]
    /\ UNCHANGED <<bootRest, breezeClient>>

BootNext ==
    \/ \E configured, global \in BOOLEAN : InitializeAPI(configured, global)
    \/ \E ok \in BOOLEAN : LibraryLoads(ok)
    \/ \E ok \in BOOLEAN : GenerateSessionSettles(ok)
    \/ \E out \in {"success", "nosuccess", "throws"} : TestQuotesSettles(out)
    \/ InitializeAPITestsStock
    \/ \E fn \in FetchFunctions : FetchAtStartup(fn)


\* The parts above at rest.
ExtraIdle ==
    /\ fmt = FmtIdle
    /\ chart = ChartIdle
    /\ runs = << >>
    /\ view = ViewInit
    /\ score = ScoreIdle
    /\ bar = BarIdle
    /\ dash = DashIdle
    /\ page = PageIdle
    /\ boot = BootIdle
    /\ disp = DispIdle

-----------------------------------------------------------------------------
(* Specifications                                                          *)

Init == WatchInit /\ ai = AIIdle /\ FetchFixed /\ ExtraIdle

SpecWatch == Init /\ [][WatchNext]_vars

\* The AI helper on its own: no page using the watchlist is involved.
InitAI ==
    /\ stored = NoItem
    /\ mounted = FALSE
    /\ rendered = << >>
    /\ wlState = << >>
    /\ dirty = FALSE
    /\ effectPending = FALSE
    /\ wlToasts = "none"
    /\ last = NoCall
    /\ prev = Brief(NoCall)
    /\ ai = AIIdle
    /\ FetchFixed
    /\ ExtraIdle

SpecAI == InitAI /\ [][AINext]_vars

\* The fetch layer and useStockData, for either revision of apiUtils and
\* any revision of breezeUtils.
InitFetch ==
    /\ stored = NoItem
    /\ mounted = FALSE
    /\ rendered = << >>
    /\ wlState = << >>
    /\ dirty = FALSE
    /\ effectPending = FALSE
    /\ wlToasts = "none"
    /\ last = NoCall
    /\ prev = Brief(NoCall)
    /\ ai = AIIdle
    /\ apiRev \in {"breeze", "alpha"}
    /\ brzRev \in 1..3
    /\ FetchLoaded
    /\ ExtraIdle

SpecFetch == InitFetch /\ [][FetchNext]_vars

\* The pure helpers and the overlapping-fetch view of the hook, each on its
\* own.
SpecFormat == InitAI /\ [][FormatNext]_vars

SpecChart == InitAI /\ [][ChartNext]_vars

SpecHook == InitAI /\ [][HookNext]_vars

SpecScore == InitAI /\ [][ScoreNext]_vars

SpecDisplay == InitAI /\ [][DisplayNext]_vars

SpecDash == InitAI /\ [][DashNext]_vars

SpecPage == InitAI /\ [][PageNext]_vars

\* Start-up, for either revision of apiUtils and any revision of breezeUtils.
SpecBoot == InitFetch /\ [][BootNext]_vars

SpecBar == InitAI /\ [][BarNext]_vars

\* The fetch layer of the public-API revision with its rate limiter: the
\* callback of a pending setTimeout runs once its minute has passed.
SpecLimiter == InitAI /\ [][FetchNext]_vars /\ WF_vars(TimerFires)

Settled == mounted /\ ~dirty /\ ~effectPending


-----------------------------------------------------------------------------
(* Properties of useWatchlist                                              *)

C8_WatchlistIsSet ==
    /\ NoDup(wlState)
    /\ NoDup(rendered)
    /\ (last.op = "remove" => ~Includes(wlState, last.sym))

\* C8 witness: a member was removed in the same render as an earlier call,
\* and other symbols remain.
C8_Witness ==
    /\ last.op = "remove" /\ ~last.fresh /\ prev.op = "add"
    /\ Includes(rendered, last.sym)
    /\ Len(wlState) >= 2

\* C9: the watchlist is mirrored to local storage.  Once the effect that
\* follows a change has run (nothing is left to render or to flush), the
\* value stored under "watchlist" is the JSON serialisation of the in-memory
\* watchlist; and a freshly mounted hook starts from exactly the stored
\* list, the empty list when the key is absent.
C9_MirroredToStorage ==
    /\ Settled => /\ stored = SetItem(JSONstringify(rendered))
                  /\ wlState = rendered
    /\ (mounted /\ last.op = "none")
          => IF stored.has THEN JSONstringify(wlState) = stored.text
                           ELSE wlState = <<>>

\* C9 witness: a change of a watchlist loaded from storage has been written
\* back.
C9_Witness ==
    /\ Settled
    /\ last.op = "add" /\ ~Includes(last.pre, last.sym)
    /\ Len(last.pre) >= 1
    /\ stored = SetItem(JSONstringify(Append(last.pre, last.sym)))

-----------------------------------------------------------------------------
(* Properties of getAIRecommendation                                       *)

\* The three causes of failure the helper handles: the API call throws, no
\* JSON can be extracted from the reply, or the extracted string does not
\* parse.
ApiFailed(api) ==
    \/ api.kind = "throw"
    \/ api.kind = "text" /\ ~Match(api.text).found
    \/ api.kind = "text" /\ Match(api.text).found
                          /\ ~IsJSON(Match(api.text).str)

HasAllFields(r) == AIFields \subseteq DOMAIN r

\* A record of the AIRecommendation type with every constraint of the type
\* and of the prompt met.
FullyPopulated(r) ==
    /\ HasAllFields(r)
    /\ r["summary"].ty = "str"
    /\ r["shortTermOutlook"].ty = "str"
    /\ r["longTermOutlook"].ty = "str"
    /\ r["recommendation"] \in {Str("Buy"), Str("Sell"), Str("Hold")}
    /\ r["confidenceScore"].ty = "num"
    /\ r["confidenceScore"].n >= 0 /\ r["confidenceScore"].n <= 10
    /\ r["reasons"].ty = "arr" /\ r["reasons"].n <= 3
    /\ r["riskLevel"] \in {Str("Low"), Str("Medium"), Str("High")}

\* C4: every record getAIRecommendation returns, on the parsed path and on
\* the fallback path, is fully populated: the three text fields present,
\* recommendation one of Buy/Sell/Hold, confidenceScore in [0,1], at most
\* three reasons, riskLevel one of Low/Medium/High.
C4_ReturnedRecordFullyPopulated ==
    (ai.pc = "done" /\ ~ai.rejected) => FullyPopulated(ai.result)

\* C5: when the generative API throws, no JSON can be extracted, or the
\* extracted JSON does not parse, getAIRecommendation does not reject: it
\* emits the error toast and resolves to the fallback record, which holds
\* all seven fields.
C5_FailureYieldsFallback ==
    (ai.pc = "done" /\ ApiFailed(ai.api)) =>
        /\ ~ai.rejected
        /\ ai.toast = "error"
        /\ HasAllFields(ai.result)
        /\ FullyPopulated(ai.result)

\* The parsing cause: braces were found but what lies between them is not
\* JSON, for a stock that fell by more than five percent.
C5_Witness ==
    /\ ai.pc = "done"
    /\ ai.api.kind = "text"
    /\ Match(ai.api.text).found
    /\ ~IsJSON(Match(ai.api.text).str)
    /\ ai.sd.changePercent < -5
    /\ ai.toast = "error"
    /\ ai.result["riskLevel"] = Str("High")

-----------------------------------------------------------------------------
(* Properties of the fetch functions and of useStockData                   *)

\* A finished call resolved to a non-null value of its function's type.
ResolvedToRecord(c) ==
    /\ ~c.rejected
    /\ c.result.kind = KindOf(c.fn)
    /\ ~c.result.nulls

\* C1: every fetch function (fetchStockQuote, fetchCompanyOverview,
\* fetchTimeSeriesData, fetchMarketIndices, fetchTrendingStocks,
\* searchStocks) resolves and never rejects, to a non-null value of its
\* record type, whatever the brokerage and the public API do.
C1_FetchAlwaysResolves ==
    /\ call.pc = "done" => ResolvedToRecord(call)
    /\ \A i \in DOMAIN kids : kids[i].pc = "done" => ResolvedToRecord(kids[i])

\* fetchStockQuote with the brokerage answering without data and the public
\* API failing: the synthetic quote is the value.
C1_Witness ==
    /\ call.pc = "done"
    /\ call.fn = "fetchStockQuote"
    /\ call.log = << Consult("brokerage", "nodata"), Consult("public", "error"),
                     Consult("synthetic", "record") >>
    /\ call.result.kind = "quote"
    /\ call.toast = "error"

ThreeTier == <<"brokerage", "public", "synthetic">>

\* The providers a function goes through, per revision of apiUtils.
Cascade(rev, fn) ==
    IF rev = "breeze" THEN <<"brokerage", "synthetic">>
    ELSE IF fn = "fetchCompanyOverview" THEN <<"public", "synthetic">>
    ELSE ThreeTier

\* The call consulted the first providers of `order`, in that order, each
\* but the last without getting a record, and returned the last one's.
FollowedCascade(c, order) ==
    /\ Len(c.log) >= 1
    /\ Len(c.log) <= Len(order)
    /\ \A i \in DOMAIN c.log : c.log[i].p = order[i]
    /\ \A i \in 1..(Len(c.log) - 1) : c.log[i].out # "record"
    /\ c.log[Len(c.log)].out = "record"
    /\ c.result.src = c.log[Len(c.log)].p

CascadeFns == {"fetchStockQuote", "fetchCompanyOverview", "fetchTimeSeriesData"}

\* C2 as stated: fetchStockQuote, fetchCompanyOverview and
\* fetchTimeSeriesData consult the brokerage, then the public API, then the
\* synthetic generator, a later provider only after every earlier one was
\* unavailable or had no data, and return the first record retrieved.
C2_FixedThreeTierOrder ==
    /\ (call.pc = "done" /\ call.fn \in CascadeFns)
          => FollowedCascade(call, ThreeTier)
    /\ \A i \in DOMAIN kids :
          kids[i].pc = "done" => FollowedCascade(kids[i], ThreeTier)

\* C2, amended: the order is brokerage, public API, synthetic for
\* fetchStockQuote and fetchTimeSeriesData of the public-API revision;
\* public API, synthetic for its fetchCompanyOverview, which never consults
\* the brokerage; brokerage, synthetic for all three in the brokerage-only
\* revision.  Within that order a later provider is consulted only after
\* every earlier one was unavailable (the rate limiter's refusal included)
\* or had no data, and the first record retrieved is returned.
C2_CascadePerRevision ==
    /\ (call.pc = "done" /\ call.fn \in CascadeFns)
          => FollowedCascade(call, Cascade(apiRev, call.fn))
    /\ \A i \in DOMAIN kids :
          kids[i].pc = "done"
            => FollowedCascade(kids[i], Cascade(apiRev, kids[i].fn))

\* fetchCompanyOverview of the public-API revision went to the public API
\* and on to the generator although the brokerage client was there.
C2_Witness ==
    /\ apiRev = "alpha"
    /\ breezeClient = "client"
    /\ call.pc = "done"
    /\ call.fn = "fetchCompanyOverview"
    /\ call.log = << Consult("public", "nodata"),
                     Consult("synthetic", "record") >>

\* C3: a fetch of useStockData always ends with stockData populated and
\* error null, whether the overview's marketCap is a number or a string;
\* no exception reaches the hook's catch block.
C3_HookAlwaysPopulated ==
    hook.pc = "done" => (hook.stockData = "set" /\ hook.error = "null")

\* C10: between two consecutive resets of the call counter at most
\* API_CALL_LIMIT HTTP requests are sent to the public API, counting every
\* request of fetchStockQuote, fetchCompanyOverview, fetchTimeSeriesData,
\* fetchCompanyName, fetchMarketIndices and searchStocks.
C10_AtMostLimitRequests == httpSinceReset <= API_CALL_LIMIT

-----------------------------------------------------------------------------
(* formatCurrency and generateMockChartData                                *)

\* The first four characters of the symbol are N, S, E and a colon.
HasNsePrefix(symbol) ==
    /\ Len(symbol) >= 4
    /\ symbol[1] = "N" /\ symbol[2] = "S" /\ symbol[3] = "E" /\ symbol[4] = ":"

\* C14: formatCurrency formats in Indian rupees with the en-IN locale
\* exactly when the symbol it is given starts with "NSE:"; for every other
\* symbol, the omitted (empty) one included, it formats in US dollars with
\* the en-US locale.
C14_RupeesIffNsePrefix ==
    fmt.pc = "done" =>
        /\ fmt.omitted => fmt.out = [locale |-> "en-US", currency |-> "USD"]
        /\ ~fmt.omitted =>
              IF HasNsePrefix(fmt.symbol)
              THEN fmt.out = [locale |-> "en-IN", currency |-> "INR"]
              ELSE fmt.out = [locale |-> "en-US", currency |-> "USD"]

\* A symbol that holds "NSE:" without starting with it was formatted in
\* dollars.
C14_Witness ==
    /\ fmt.pc = "done"
    /\ fmt.symbol = <<"A", "N", "S", "E", ":">>
    /\ fmt.out.currency = "USD"

\* C15: generateMockChartData returns exactly 100 points; the dates of the
\* points never decrease along the list and every value is at least 1.
C15_HundredOrderedPointsAtLeastOne ==
    /\ chart.len <= DataPoints
    /\ chart.pc = "done" => chart.len = DataPoints
    /\ chart.len >= 1 =>
          /\ chart.value >= 1 * Milli
          /\ chart.len >= 2 => chart.prevDate <= chart.date

\* A list was returned whose last point was produced by the clamp, a
\* midnight having passed while it was built.
C15_Witness ==
    /\ chart.pc = "done"
    /\ chart.len = DataPoints
    /\ chart.value = 1 * Milli
    /\ chart.dir = -1 /\ chart.strength > 0
    /\ chart.midnights = 1

-----------------------------------------------------------------------------
(* Attempts per provider                                                   *)

\* The fetch calls there are: the page's call and the fetchStockQuote
\* calls of fetchTrendingStocks.
Calls == {call} \cup Range(kids)

MaxSent(fn) ==
    CASE fn = "fetchStockQuote" -> 2
      [] fn = "fetchMarketIndices" -> IndexCount
      [] OTHER -> 1

-----------------------------------------------------------------------------
(* Independence of fetch calls                                             *)

Refused(c) == Consult("public", "limited") \in Range(c.log)

\* C12 as stated: what serves a fetchStockQuote call depends on its symbol
\* and on the provider outcomes alone, so no such call is ever served
\* synthetically because of the calls made before it, the public API not
\* having been asked.
C12_IndependentOfOtherCalls ==
    \A c \in Calls : c.fn = "fetchStockQuote" => ~Refused(c)

\* The step takes the fetchStockQuote call from before its public-API
\* stage to the request / to the limiter's refusal.
ReachesHttp(c, d) ==
    d.fn = "fetchStockQuote" /\ d.pc = "http" /\ c.pc # "http"

GetsRefused(c, d) ==
    d.fn = "fetchStockQuote" /\ Refused(d) /\ ~Refused(c)

\* What the limiter's counter decides for a call whose public-API stage
\* the step contains.
DecidedByCounter(c, d) ==
    /\ ReachesHttp(c, d) => apiCallCount < API_CALL_LIMIT
    /\ GetsRefused(c, d) =>
          /\ apiCallCount >= API_CALL_LIMIT
          /\ d.pc = "done" /\ d.result.src = "synthetic" /\ d.sent = 0

\* C12 (amended): what serves a fetchStockQuote call is determined by its
\* symbol, the provider outcomes and the request counter the module keeps
\* across calls: a call that gets past the brokerage is sent to the public
\* API only while fewer than API_CALL_LIMIT calls were counted since the
\* last reset, and is otherwise served synthetically without a request.
C12_DependsOnRequestCounter ==
    [][/\ DecidedByCounter(call, call')
       /\ \A i \in DOMAIN kids :
            (call.pc = "join" /\ i \in DOMAIN kids') =>
                DecidedByCounter(kids[i], kids'[i])]_vars

\* A fetchStockQuote call was refused by the limiter after the brokerage
\* had been unavailable.
C12_Witness ==
    /\ call.pc = "done"
    /\ call.fn = "fetchStockQuote"
    /\ call.log = <<Consult("brokerage", "unavailable"),
                    Consult("public", "limited"),
                    Consult("synthetic", "record")>>
    /\ apiCallCount >= API_CALL_LIMIT

-----------------------------------------------------------------------------
(* fetchTrendingStocks                                                     *)

\* C16: fetchTrendingStocks starts the quote fetch of every symbol of its
\* list (ten symbols) before it awaits any of them, awaits them together,
\* and resolves to one quote per symbol in the order of the list, whatever
\* the order in which the fetches settled.
C16_AllIssuedThenJoinedInListOrder ==
    /\ Len(TrendingSymbols) = 10
    /\ call.fn = "fetchTrendingStocks" =>
          /\ Len(kids) = TrendLen
          /\ \A i \in DOMAIN kids :
                /\ kids[i].fn = "fetchStockQuote"
                /\ kids[i].sym = TrendingSymbols[i]
                /\ kids[i].pc # "start"
          /\ call.pc = "done" =>
                /\ Len(call.list) = TrendLen
                /\ \A i \in 1..TrendLen :
                      /\ kids[i].pc = "done"
                      /\ call.list[i].kind = "quote"
                      /\ call.list[i].sym = TrendingSymbols[i]

\* The second quote settled before the first, and the list is in order.
C16_Witness ==
    /\ call.fn = "fetchTrendingStocks"
    /\ call.pc = "done"
    /\ Len(call.log) >= 2
    /\ call.log[1] = KidSettled(2)
    /\ call.log[2] = KidSettled(1)
    /\ call.list[1].sym = TrendingSymbols[1]
    /\ call.list[1].src # call.list[2].src

-----------------------------------------------------------------------------
(* Reporting of synthetic data; the brokerage handle                       *)

\* C13: whenever a fetch function resolves to synthetic data, at least one
\* toast was emitted during that call.
C13_SyntheticAlwaysToasted ==
    \A c \in Calls :
        (c.pc = "done" /\ c.fn # "fetchTrendingStocks"
           /\ c.result.src = "synthetic") => c.toast # "none"

\* C17: the brokerage client handle is assigned at most once and there is
\* no teardown: once it is not null it is never set back to null and never
\* replaced, so isBreezeAPIAvailable() never goes from true to false.
C17_HandleNeverDropped ==
    [][breezeClient # "null" => breezeClient' = breezeClient]_vars

\* The handle exists and a call was served through it, more fetches having
\* followed the initialisation.
C17_Witness ==
    /\ breezeClient = "client"
    /\ call.pc = "done"
    /\ call.asked = 1
    /\ call.result.src = "brokerage"

-----------------------------------------------------------------------------
(* The fallback recommendation                                             *)

\* C18: the fallback recommendation is a function of the stock data alone:
\* Buy exactly when changePercent > 2, Sell exactly when changePercent < -2,
\* Hold otherwise; riskLevel High exactly when |changePercent| > 5 and
\* Medium otherwise, never Low; confidenceScore 0.6; three reasons; and it
\* is the record StockAnalysis builds in its own catch branch.
C18_FallbackThresholdsAndPageCopy ==
    (ai.pc = "done" /\ ApiFailed(ai.api)) =>
        LET cp == ai.sd.changePercent
            r == ai.result
        IN  /\ r["recommendation"] =
                  Str(IF cp > 2 THEN "Buy" ELSE IF cp < -2 THEN "Sell"
                      ELSE "Hold")
            /\ r["riskLevel"] = Str(IF Abs(cp) > 5 THEN "High" ELSE "Medium")
            /\ r["riskLevel"] # Str("Low")
            /\ r["confidenceScore"] = Num(6)
            /\ r["reasons"] = Arr(3)
            /\ r = StockAnalysisFallback(ai.sd)
            /\ FallbackReasons(ai.sd) = StockAnalysisReasons(ai.sd)

\* The API call threw for a stock exactly at the Buy threshold and exactly
\* at no risk threshold: Hold, Medium.
C18_Witness ==
    /\ ai.pc = "done"
    /\ ai.api.kind = "throw"
    /\ ai.sd.changePercent = 2
    /\ ai.result["recommendation"] = Str("Hold")
    /\ ai.result["riskLevel"] = Str("Medium")
    /\ ai.result = StockAnalysisFallback(ai.sd)

-----------------------------------------------------------------------------
(* useStockData: fetches that overlap                                      *)

InFlight(i) == i \in DOMAIN runs /\ runs[i].pc # "done"

\* C19: isLoading is true in every state in which a fetch started by the
\* hook has not settled, also when the symbol changed while an earlier
\* fetch was in flight.
C19_LoadingWhileFetchInFlight ==
    (\E i \in DOMAIN runs : InFlight(i)) => view.isLoading

\* C20: when the symbol was set while an earlier fetch was in flight, then
\* after all fetches have settled (the latest one with a record) stockData
\* belongs to the symbol set last.
C20_LatestSymbolWins ==
    (/\ runs # << >>
     /\ \A i \in DOMAIN runs : ~InFlight(i)
     /\ ~runs[Len(runs)].numericCap) =>
        view.stockData = view.symbol

-----------------------------------------------------------------------------
(* Composition of watchlist operations                                     *)

\* The last two calls were made one after the other on a current closure,
\* with or without a re-render in between.
TwoCalls(op1, op2) ==
    /\ prev.op = op1 /\ last.op = op2
    /\ prev.sym # last.sym
    /\ prev.fresh

\* C26: add and remove compose as set operations.  After addToWatchlist(a)
\* and addToWatchlist(b) for two distinct non-members both are members;
\* after addToWatchlist(a) and removeFromWatchlist(b) for a member b, in
\* either order, a is a member and b is not; with or without a re-render
\* between the two calls.
C26_ComposeAsSetOperations ==
    /\ (TwoCalls("add", "add") /\ ~prev.member
          /\ ~Includes(last.pre, last.sym))
          => Includes(wlState, prev.sym) /\ Includes(wlState, last.sym)
    /\ (TwoCalls("add", "remove") /\ Includes(last.pre, last.sym))
          => Includes(wlState, prev.sym) /\ ~Includes(wlState, last.sym)
    /\ (TwoCalls("remove", "add") /\ prev.member)
          => ~Includes(wlState, prev.sym) /\ Includes(wlState, last.sym)

-----------------------------------------------------------------------------
(* The score-based recommendation                                          *)

Sign(n) == IF n > 0 THEN 1 ELSE IF n < 0 THEN -1 ELSE 0

\* C30: the score-based getAIRecommendation starts from 50 and returns Buy
\* exactly when the final score is at least 65, Sell exactly when it is at
\* most 35 and Hold otherwise; the confidence is 2 * |score - 50| clamped to
\* 0..100, so Hold carries a confidence below 30 and Buy or Sell one of at
\* least 30; the volume factor never moves the score against the sign of
\* priceChangePercent; and at most 3 reasons are returned.
C30_ScoreThresholdsAndConfidence ==
    score.pc = "done" =>
        LET sc == score.score
            twice == 2 * (IF sc >= 50 THEN sc - 50 ELSE 50 - sc)
        IN  /\ (score.recommendation = "Buy") <=> (sc >= 65)
            /\ (score.recommendation = "Sell") <=> (sc <= 35)
            /\ (score.recommendation = "Hold") <=> (sc > 35 /\ sc < 65)
            /\ score.confidence =
                  (IF twice > 100 THEN 100 ELSE IF twice < 0 THEN 0 ELSE twice)
            /\ score.recommendation = "Hold" => score.confidence < 30
            /\ score.recommendation \in {"Buy", "Sell"} =>
                  score.confidence >= 30
            /\ (sc - score.beforeVolume) * Sign(score.pcp) >= 0
            /\ (score.pcp = 0 => sc = score.beforeVolume)
            /\ Len(score.reasons) <= 3

\* High volume pushed a falling stock with an attractive P/E ratio down to
\* Sell, with three reasons.
C30_Witness ==
    /\ score.pc = "done"
    /\ score.pcp < -20 /\ score.pe < 15
    /\ score.score = score.beforeVolume - 12
    /\ score.recommendation = "Sell"
    /\ Len(score.reasons) = 3

-----------------------------------------------------------------------------
(* The debounce of SearchBar                                               *)

\* The query with the blanks at its two ends removed, computed from the
\* positions of its first and last non-blank characters.
Trimmed(q) ==
    LET solid == {i \in DOMAIN q : q[i] # " "}
    IN  IF solid = {} THEN << >>
        ELSE SubSeq(q, CHOOSE i \in solid : \A k \in solid : i <= k,
                       CHOOSE i \in solid : \A k \in solid : k <= i)

\* C27: SearchBar debounces suggestion lookups.  searchStocks is invoked
\* only for a query of trimmed length at least 2 that stayed unchanged for
\* 300 ms; every query change cancels the pending timer, so at most one
\* timer is pending at any time (the one of the current query) and a query
\* overwritten within 300 ms is never searched; a query shorter than 2
\* characters clears the suggestions without a lookup.
C27_DebouncedLookups ==
    /\ Len(bar.timers) <= 1
    /\ \A i \in DOMAIN bar.timers : bar.timers[i].q = bar.query
    /\ bar.lastLookup.made =>
          /\ Len(Trimmed(bar.lastLookup.q)) >= 2
          /\ bar.lastLookup.arg = Trimmed(bar.lastLookup.q)
          /\ bar.lastLookup.age >= DebounceTicks
          /\ bar.lastLookup.current
    /\ (bar.lastFire.fired /\ Len(Trimmed(bar.lastFire.q)) < 2) =>
          ~bar.lastFire.looked

\* A pending timer was cancelled by a query change, and later a query that
\* is long enough only after trimming was not searched while a two-letter
\* query was.
C27_Witness ==
    /\ bar.cancelled
    /\ bar.lastLookup.made
    /\ bar.lastLookup.q = <<"a", "b">>
    /\ bar.lastFire = [fired |-> TRUE, q |-> <<" ", "a">>, looked |-> FALSE]
    /\ bar.suggestions.of = "cleared"

-----------------------------------------------------------------------------
(* The rate limiter                                                        *)

LimiterInRange ==
    /\ apiCallCount >= 0
    /\ apiCallCount <= API_CALL_LIMIT
    /\ resetTimers <= 1
    /\ apiCallCount > 0 => resetTimers = 1

\* C25: in every reachable state 0 <= apiCallCount <= API_CALL_LIMIT;
\* whenever apiCallCount > 0 exactly one reset timer is pending; and once
\* the limit has been reached the counter eventually returns to 0, where
\* the limiter lets the next call through to the public API.
C25_LimiterBoundedAndResets ==
    /\ []LimiterInRange
    /\ [](apiCallCount = 0 => ~ShouldUseMockData(Limiter).mock)
    /\ (apiCallCount >= API_CALL_LIMIT) ~> (apiCallCount = 0)

\* A call was refused at the limit, the timer has fired since, and the
\* counter is back at 0 with no timer pending.
C25_Witness ==
    /\ call.pc = "done"
    /\ Refused(call)
    /\ apiCallCount = 0
    /\ resetTimers = 0

-----------------------------------------------------------------------------
(* The symbol of a returned quote                                          *)

\* C28: the symbol field of the quote fetchStockQuote(s) returns equals
\* the requested symbol s on every provider path, for NSE-prefixed and
\* un-prefixed symbols alike.
C28_QuoteSymbolIsRequested ==
    \A c \in Calls :
        (c.pc = "done" /\ c.fn = "fetchStockQuote") => c.result.sym = c.sym

\* C29: every amount the UI formats for an INR-denominated instrument is
\* formatted in Indian Rupees: price and change of an NSE-prefixed stock in
\* the StockAnalysis header, value and change of every INR index (SENSEX
\* included) in MarketOverview, the price of an NSE-prefixed stock in
\* WatchlistCard.
C29_RupeeAmountsShownInRupees ==
    \A i \in DOMAIN disp.cells :
        disp.cells[i].inr => disp.cells[i].out.currency = "INR"

\* Every fetchWatchlistData run of the Dashboard has settled.
AllBatchesSettled ==
    /\ dash.pc = "mounted"
    /\ \A b \in DOMAIN dash.batches : dash.batches[b].pc = "settled"

\* C21: on the Dashboard, once all quote fetches have settled, watchlistData
\* holds exactly one quote per symbol of the current watchlist, in watchlist
\* order; a batch started for an earlier watchlist that completes late does
\* not bring a removed symbol back.
C21_SettledDataMatchesWatchlist ==
    AllBatchesSettled => dash.watchlistData = QuotesFor(dash.watchlist)

\* C22: on the stock analysis page, once all getAIRecommendation calls have
\* settled the displayed aiRecommendation is the one computed for the
\* current stockData, and isLoadingAI is true whenever a request for the
\* current stockData is in flight; a recommendation requested for an earlier
\* stock that resolves late does not replace the newer one.
C22_RecommendationIsForCurrentStock ==
    /\ ( /\ page.requests # << >>
         /\ \A r \in DOMAIN page.requests : page.requests[r].pc = "settled" )
       => page.aiRecommendation = page.stockData
    /\ ( \E r \in DOMAIN page.requests :
             /\ page.requests[r].pc = "flight"
             /\ page.requests[r].sd = page.stockData )
       => page.isLoadingAI

\* A request a fetch function sent through the brokerage client.
ViaBrokerage(r) == r.via # "none"

\* C23: isBreezeAPIAvailable() is true only if the session was established;
\* when initializeBreezeAPI has resolved false (credentials missing, library
\* not loaded, generateSession throwing, test getQuotes failing) it is false
\* and the aggregation layer does not call the brokerage.
C23_AvailableOnlyWithSession ==
    /\ IsBreezeAPIAvailable => boot.session = "ok"
    /\ boot.resolved = "false" => ~IsBreezeAPIAvailable
    /\ \A i \in DOMAIN boot.requests :
           boot.requests[i].resolved = "false" => ~ViaBrokerage(boot.requests[i])

\* C24: no data request (getQuotes, getNames, getHistoricalDatav2) is sent
\* through the brokerage client on behalf of a fetch function before
\* generateSession has completed successfully, however the un-awaited
\* initializeAPI interleaves with the fetches of the mounting pages.
C24_NoRequestBeforeSession ==
    \A i \in DOMAIN boot.requests :
        ViaBrokerage(boot.requests[i]) => boot.requests[i].session = "ok"

=============================================================================
